---------------------------- MODULE Spec2Model ----------------------------
(***************************************************************************)
(* Model of metaid-script-decoder: the chain parsers (BTC, MVC, DOGE) that *)
(* extract MetaID PINs from transaction scripts.                           *)
(*                                                                         *)
(* Conventions.  A Go []byte or string is a sequence of byte values        *)
(* 0..255 (text is restricted to ASCII, where strings.ToLower and          *)
(* strings.TrimSpace act byte-wise).  A Go int / int64 / uint64 is its     *)
(* 64-bit two's-complement pattern, written as 8 little-endian byte        *)
(* digits.  SHA-256 is an injective constructor (no collisions).  The      *)
(* program keeps no state between calls except each parser's               *)
(* configuration, so the state is the parser in use, the last call made    *)
(* on it and what that call returned; seen keeps, for the parser in use,   *)
(* the first of the recorded ParseTransaction calls made on it, so that a  *)
(* later call can be compared with an earlier one.                         *)
(***************************************************************************)
EXTENDS Integers, Sequences, FiniteSets, TLC

VARIABLES parser, call, ret, seen

vars == <<parser, call, ret, seen>>

-----------------------------------------------------------------------------
(* Byte strings                                                            *)

RECURSIVE Concat(_)
Concat(ss) == IF ss = <<>> THEN <<>> ELSE Head(ss) \o Concat(Tail(ss))

Reverse(s) == [i \in 1..Len(s) |-> s[Len(s) + 1 - i]]

Repeat(b, n) == [i \in 1..n |-> b]

\* s[from:to] of Go, 0-based and half-open, for 0 <= from <= to <= len(s)
Slice(s, from, to) == SubSeq(s, from + 1, to)

HexDigit(n) == IF n < 10 THEN 48 + n ELSE 87 + n

HexEncodeToString(b) ==
    [i \in 1..(2 * Len(b)) |->
        IF i % 2 = 1 THEN HexDigit(b[(i + 1) \div 2] \div 16)
                     ELSE HexDigit(b[i \div 2] % 16)]

S_metaid == <<109, 101, 116, 97, 105, 100>>
S_testid == <<116, 101, 115, 116, 105, 100>>
S_create == <<99, 114, 101, 97, 116, 101>>
S_modify == <<109, 111, 100, 105, 102, 121>>
S_revoke == <<114, 101, 118, 111, 107, 101>>
S_init == <<105, 110, 105, 116>>
S_CREATE == <<67, 82, 69, 65, 84, 69>>
S_simplebuzz == <<47, 112, 114, 111, 116, 111, 99, 111, 108, 115, 47, 115, 105, 109, 112, 108, 101, 98, 117, 122, 122>>
S_protocols == <<47, 112, 114, 111, 116, 111, 99, 111, 108, 115>>
S_0 == <<48>>
S_1_0 == <<49, 46, 48>>
S_textplain == <<116, 101, 120, 116, 47, 112, 108, 97, 105, 110>>
S_hello == <<104, 101, 108, 108, 111>>
S_hel == <<104, 101, 108>>
S_lo == <<108, 111>>
S_appjson == <<97, 112, 112, 108, 105, 99, 97, 116, 105, 111, 110, 47, 106, 115, 111, 110>>
S_info == <<47, 105, 110, 102, 111>>
S_slash == <<47>>
S_unknown == <<117, 110, 107, 110, 111, 119, 110>>
S_PathMixed == <<32, 32, 47, 73, 110, 102, 111, 47, 78, 97, 109, 101, 32, 32>>
S_infoname == <<47, 105, 110, 102, 111, 47, 110, 97, 109, 101>>
\* "addr:/path", "a.b:80:/path" and ":/path"
S_AddrPath == <<97, 100, 100, 114, 58, 47, 112, 97, 116, 104>>
S_HostPortPath == <<97, 46, 98, 58, 56, 48, 58, 47, 112, 97, 116, 104>>
S_ColonPath == <<58, 47, 112, 97, 116, 104>>
S_path == <<47, 112, 97, 116, 104>>
\* "Info/Name", a path without the leading separator
S_NoSlash == <<73, 110, 102, 111, 47, 78, 97, 109, 101>>

-----------------------------------------------------------------------------
(* package strings, as used by package common                              *)

ToLower(s) == [i \in 1..Len(s) |-> IF s[i] \in 65..90 THEN s[i] + 32 ELSE s[i]]

IsSpace(b) == b \in {9, 10, 11, 12, 13, 32}

RECURSIVE TrimLeft(_)
TrimLeft(s) == IF s # <<>> /\ IsSpace(Head(s)) THEN TrimLeft(Tail(s)) ELSE s

RECURSIVE TrimRight(_)
TrimRight(s) ==
    IF s # <<>> /\ IsSpace(s[Len(s)]) THEN TrimRight(SubSeq(s, 1, Len(s) - 1)) ELSE s

TrimSpace(s) == TrimRight(TrimLeft(s))

\* strings.Index(s, sep): 0-based index of the first occurrence, -1 if none
RECURSIVE IndexFrom(_, _, _)
IndexFrom(s, sep, i) ==
    IF i + Len(sep) > Len(s) THEN -1
    ELSE IF SubSeq(s, i + 1, i + Len(sep)) = sep THEN i
    ELSE IndexFrom(s, sep, i + 1)

Index(s, sep) == IndexFrom(s, sep, 0)

\* strings.Split(s, sep) for a one-byte separator
RECURSIVE Split(_, _)
Split(s, sep) ==
    LET i == Index(s, sep)
    IN IF i < 0 THEN <<s>>
       ELSE <<Slice(s, 0, i)>> \o Split(Slice(s, i + 1, Len(s)), sep)

\* strings.SplitN(s, sep, 2)
SplitN2(s, sep) ==
    LET i == Index(s, sep)
    IN IF i < 0 THEN <<s>>
       ELSE <<Slice(s, 0, i), Slice(s, i + Len(sep), Len(s))>>

RECURSIVE Join(_, _)
Join(arr, sep) ==
    IF arr = <<>> THEN <<>>
    ELSE IF Len(arr) = 1 THEN arr[1]
    ELSE arr[1] \o sep \o Join(Tail(arr), sep)

-----------------------------------------------------------------------------
(* package common                                                          *)

GetParentPath(path) ==
    LET arr == Split(path, S_slash)
    IN IF Len(arr) < 3 THEN <<>>
       ELSE Join(SubSeq(arr, 1, Len(arr) - 1), S_slash)

ValidateOperation(operation) ==
    ToLower(operation) \in {S_create, S_modify, S_revoke}

NormalizeContentType(contentType) ==
    IF contentType = <<>> THEN S_appjson ELSE ToLower(TrimSpace(contentType))

NormalizePath(path) == ToLower(TrimSpace(path))

\* faulty variant of CalculateMetaId: the empty address is hashed too
CalculateMetaId_always(address) == <<"hex", "sha256", address>>

\* hex(sha256(address)); the digest is kept symbolic
CalculateMetaId(address) ==
    IF address = <<>> THEN <<>> ELSE <<"hex", "sha256", address>>

-----------------------------------------------------------------------------
(* package decoder: configuration                                          *)

DefaultProtocolID == <<54, 100, 54, 53, 55, 52, 54, 49, 54, 57, 54, 52>>
CustomProtocolID == <<55, 52, 54, 53, 55, 51, 55, 52, 54, 57, 54, 52>>

\* a *ParserConfig is nil or a record; CreatorResolver is never called by
\* the parsers and is left out
NilConfig == [nil |-> TRUE, ProtocolID |-> <<>>]

Config(protocolID) == [nil |-> FALSE, ProtocolID |-> protocolID]

DefaultConfig == Config(DefaultProtocolID)

NewConfigWithProtocol(protocolID) ==
    Config(IF protocolID = <<>> THEN DefaultProtocolID ELSE protocolID)

\* faulty variant of NewParser: keeps a nil configuration as it is
NewParser_keepNil(chain, config) == [chain |-> chain, config |-> config]

NewParser(chain, config) ==
    [chain |-> chain, config |-> IF config.nil THEN DefaultConfig ELSE config]

NewBTCParser(config) == NewParser("btc", config)

NewMVCParser(config) == NewParser("mvc", config)

NewDOGEParser(config) == NewParser("doge", config)

GetChainName(p) == p.chain

-----------------------------------------------------------------------------
(* Script opcodes (btcd txscript) used by the parsers                      *)

OP_0 == 0
OP_FALSE == 0
OP_PUSHDATA1 == 76
OP_PUSHDATA2 == 77
OP_PUSHDATA4 == 78
OP_IF == 99
OP_ENDIF == 104
OP_RETURN == 106
OP_DUP == 118
OP_EQUAL == 135
OP_EQUALVERIFY == 136
OP_HASH160 == 169
OP_CHECKSIG == 172
OP_CHECKSIGVERIFY == 173
TaprootAnnexTag == 80

\* the script-element size ceiling the scanners enforce
MaxFieldSize == 520

\* little-endian value of 1, 2 or 4 length bytes; a 4-byte length of 2^24 or
\* more exceeds every buffer of the model and is reported as TooLong
TooLong == 2147483647

LittleEndian(b) ==
    IF Len(b) = 1 THEN b[1]
    ELSE IF Len(b) = 2 THEN b[1] + 256 * b[2]
    ELSE IF b[4] >= 1 THEN TooLong
    ELSE b[1] + 256 * b[2] + 65536 * b[3]

\* a token of txscript.ScriptTokenizer: Opcode() and Data(); Data() is nil
\* for every one-byte opcode (OP_0 included) and a slice of the script,
\* possibly empty, for a push
Token(op, data, isnil) == [op |-> op, d |-> data, nil |-> isnil]

\* txscript.MakeScriptTokenizer(0, script) run to its end: the tokens for
\* which Next() returns true, and whether Err() is set when it stops
RECURSIVE TokenizeFrom(_, _)
TokenizeFrom(script, off) ==
    IF off >= Len(script) THEN [toks |-> <<>>, err |-> FALSE]
    ELSE
      LET op == script[off + 1]
          w == IF op = OP_PUSHDATA1 THEN 1 ELSE IF op = OP_PUSHDATA2 THEN 2 ELSE 4
          bad == [toks |-> <<>>, err |-> TRUE]
          then(tok, next) ==
              LET r == TokenizeFrom(script, next)
              IN [toks |-> <<tok>> \o r.toks, err |-> r.err]
      IN IF op = OP_0 \/ op > OP_PUSHDATA4
           THEN then(Token(op, <<>>, TRUE), off + 1)
         ELSE IF op < OP_PUSHDATA1
           THEN IF off + 1 + op > Len(script) THEN bad
                ELSE then(Token(op, Slice(script, off + 1, off + 1 + op), FALSE),
                          off + 1 + op)
         ELSE IF off + 1 + w > Len(script) THEN bad
         ELSE LET n == LittleEndian(Slice(script, off + 1, off + 1 + w))
              IN IF n = TooLong \/ off + 1 + w + n > Len(script) THEN bad
                 ELSE then(Token(op, Slice(script, off + 1 + w, off + 1 + w + n), FALSE),
                           off + 1 + w + n)

MakeScriptTokenizer(script) == TokenizeFrom(script, 0)

\* mvc.extractDataPushes: [err, pushes]; every push is a fresh non-nil slice
RECURSIVE ExtractFrom(_, _)
ExtractFrom(script, offset) ==
    IF offset >= Len(script) THEN [err |-> FALSE, pushes |-> <<>>]
    ELSE
      LET opcode == script[offset + 1]
          off1 == offset + 1
          truncated == [err |-> TRUE, pushes |-> <<>>]
          w == IF opcode < OP_PUSHDATA1 THEN 0
               ELSE IF opcode = OP_PUSHDATA1 THEN 1
               ELSE IF opcode = OP_PUSHDATA2 THEN 2 ELSE 4
      IN IF opcode > OP_PUSHDATA4 THEN ExtractFrom(script, off1)
         ELSE IF w > 0 /\ off1 + w - 1 >= Len(script) THEN truncated
         ELSE
           LET dataLen == IF w = 0 THEN opcode
                          ELSE LittleEndian(Slice(script, off1, off1 + w))
               off2 == off1 + w
           IN IF dataLen = TooLong \/ off2 + dataLen > Len(script) THEN truncated
              ELSE LET r == ExtractFrom(script, off2 + dataLen)
                   IN [err |-> r.err,
                       pushes |-> IF r.err THEN <<>>
                                  ELSE <<Slice(script, off2, off2 + dataLen)>> \o r.pushes]

\* faulty variant of extractDataPushes: the empty pushes are not emitted
extractDataPushes_noEmpty(script) ==
    LET Kept(r) == [r EXCEPT !.pushes = SelectSeq(r.pushes, LAMBDA d : d # <<>>)]
    IN Kept(ExtractFrom(script, 0))

extractDataPushes(script) == ExtractFrom(script, 0)

-----------------------------------------------------------------------------
(* decoder.Pin                                                             *)

NoHash == [t |-> "none", v |-> <<>>]

\* the zero value &decoder.Pin{}
ZeroPin ==
    [Id |-> <<>>, OwnerAddress |-> <<>>, OwnerMetaId |-> <<>>,
     Offset |-> 0, Location |-> <<>>, Output |-> <<>>,
     OutputValue |-> <<0, 0, 0, 0, 0, 0, 0, 0>>,
     Operation |-> <<>>, Path |-> <<>>, ParentPath |-> <<>>,
     Encryption |-> <<>>, Version |-> <<>>,
     ContentType |-> <<>>, ContentBody |-> <<>>, ContentLength |-> 0,
     TxID |-> NoHash, Vout |-> 0, ChainName |-> "", InscriptionTxIndex |-> 0,
     Host |-> <<>>, OriginalPath |-> <<>>, CreatorInputTxVinLocation |-> <<>>]

\* a *decoder.Pin result: the list holding the PIN, or the empty list for nil
NilPin == <<>>

\* a field of an infoList: its bytes and whether the slice is nil
Field(d, isnil) == [d |-> d, nil |-> isnil]

FieldsOf(toks) == [i \in 1..Len(toks) |-> Field(toks[i].d, toks[i].nil)]

\* faulty variant of Body: the fields appended in reverse order
RECURSIVE Body_reversed(_, _)
Body_reversed(infoList, i) ==
    IF i > Len(infoList) THEN <<>> ELSE Body_reversed(infoList, i + 1) \o infoList[i].d

RECURSIVE Body(_, _)
Body(infoList, i) ==
    IF i > Len(infoList) THEN <<>> ELSE infoList[i].d \o Body(infoList, i + 1)

-----------------------------------------------------------------------------
(* Field decoders and envelope scanners                                    *)

\* the collecting loop shared by btc.parseOnePin and
\* doge.parsePinFromRedeemScript: Data() of every token up to OP_ENDIF
RECURSIVE CollectFields(_, _)
CollectFields(toks, i) ==
    IF i > Len(toks) THEN [list |-> <<>>, oversize |-> FALSE, endif |-> FALSE]
    ELSE IF toks[i].op = OP_ENDIF
      THEN [list |-> <<>>, oversize |-> FALSE, endif |-> TRUE]
    ELSE IF Len(toks[i].d) > MaxFieldSize
      THEN [list |-> <<>>, oversize |-> TRUE, endif |-> FALSE]
    ELSE LET r == CollectFields(toks, i + 1)
         IN [r EXCEPT !.list = <<Field(toks[i].d, toks[i].nil)>> \o r.list]

\* encryption / version: the field when present and not nil, else "0"
FieldOr(infoList, k, default) ==
    IF Len(infoList) > k /\ ~infoList[k + 1].nil THEN infoList[k + 1].d ELSE default

ContentTypeOf(infoList) ==
    IF Len(infoList) > 4 /\ ~infoList[5].nil
    THEN NormalizeContentType(infoList[5].d) ELSE S_appjson

\* faulty variant of TooFewFields: "revoke" held to the six-field minimum
TooFewFields_same(infoList, operation) == Len(infoList) < 6

\* the arity rule shared by the three parseOnePin
TooFewFields(infoList, operation) ==
    \/ operation = S_revoke /\ Len(infoList) < 5
    \/ Len(infoList) < 6 /\ operation # S_revoke

\* btc.parseOnePin from "if len(infoList) < 1" on
BTC_decodeFields(infoList) ==
    IF Len(infoList) < 1 THEN NilPin
    ELSE
      LET operation == ToLower(infoList[1].d)
          path == NormalizePath(infoList[2].d)
      IN IF TooFewFields(infoList, operation) THEN NilPin
         ELSE <<[ZeroPin EXCEPT
                   !.Operation = operation,
                   !.Path = path,
                   !.ParentPath = GetParentPath(path),
                   !.Encryption = FieldOr(infoList, 2, S_0),
                   !.Version = FieldOr(infoList, 3, S_0),
                   !.ContentType = ContentTypeOf(infoList),
                   !.ContentBody = Body(infoList, 6),
                   !.ContentLength = Len(Body(infoList, 6))]>>

\* btc.parseOnePin on a tokenizer that has read i - 1 tokens
BTC_parseOnePin(tk, i) ==
    LET c == CollectFields(tk.toks, i)
    IN IF c.oversize THEN NilPin
       ELSE IF ~c.endif /\ tk.err THEN NilPin
       ELSE BTC_decodeFields(c.list)

\* index of the first token at or after i with the opcode, 0 if none
RECURSIVE FindOpcode(_, _, _)
FindOpcode(toks, op, i) ==
    IF i > Len(toks) THEN 0
    ELSE IF toks[i].op = op THEN i ELSE FindOpcode(toks, op, i + 1)

BTC_parseOpReturnScript(p, pkScript) ==
    LET tk == MakeScriptTokenizer(pkScript)
        i == FindOpcode(tk.toks, OP_RETURN, 1)
    IN IF i = 0 THEN NilPin
       ELSE IF i + 1 > Len(tk.toks)
               \/ HexEncodeToString(tk.toks[i + 1].d) # p.config.ProtocolID
         THEN NilPin
       ELSE BTC_parseOnePin(tk, i + 2)

BTC_parseWitnessScript(p, witnessScript) ==
    LET tk == MakeScriptTokenizer(witnessScript)
        i == FindOpcode(tk.toks, OP_FALSE, 1)
    IN IF i = 0 THEN NilPin
       ELSE IF i + 1 > Len(tk.toks) \/ tk.toks[i + 1].op # OP_IF THEN NilPin
       ELSE IF i + 2 > Len(tk.toks)
               \/ HexEncodeToString(tk.toks[i + 2].d) # p.config.ProtocolID
         THEN NilPin
       ELSE BTC_parseOnePin(tk, i + 3)

\* mvc.parseOnePin (the parser in use, on a list of pushes)
MVC_parseOnePin(infoList) ==
    IF Len(infoList) < 1 THEN NilPin
    ELSE
      LET operation == ToLower(infoList[1].d)
      IN IF TooFewFields(infoList, operation) THEN NilPin
         ELSE
           LET pathStr == infoList[2].d
               colonSlashIndex == Index(pathStr, <<58, 47>>)
               host == IF colonSlashIndex > 0
                       THEN Slice(pathStr, 0, colonSlashIndex) ELSE <<>>
               path == IF colonSlashIndex > 0
                       THEN NormalizePath(Slice(pathStr, colonSlashIndex + 1, Len(pathStr)))
                       ELSE NormalizePath(pathStr)
           IN <<[ZeroPin EXCEPT
                   !.Operation = operation,
                   !.OriginalPath = pathStr,
                   !.Host = host,
                   !.Path = path,
                   !.ParentPath = path,
                   !.Encryption = FieldOr(infoList, 2, S_0),
                   !.Version = FieldOr(infoList, 3, S_0),
                   !.ContentType = ContentTypeOf(infoList),
                   !.ContentBody = Body(infoList, 6),
                   !.ContentLength = Len(Body(infoList, 6))]>>

PushFields(pushes) == [i \in 1..Len(pushes) |-> Field(pushes[i], FALSE)]

MVC_parseOpReturnScript(p, pkScript) ==
    IF Len(pkScript) < 1 THEN NilPin
    ELSE
      LET offset == IF pkScript[1] = OP_0 \/ pkScript[1] = OP_FALSE THEN 1 ELSE 0
      IN IF offset >= Len(pkScript) \/ pkScript[offset + 1] # OP_RETURN THEN NilPin
         ELSE
           LET r == extractDataPushes(Slice(pkScript, offset + 1, Len(pkScript)))
           IN IF r.err \/ Len(r.pushes) = 0 THEN NilPin
              ELSE IF HexEncodeToString(r.pushes[1]) # p.config.ProtocolID THEN NilPin
              ELSE MVC_parseOnePin(PushFields(Tail(r.pushes)))

\* the tokenizer variant of the MVC scanner (first copy of the file): the
\* BTC scan without the OP_ENDIF stop and without the size check
MVC_parseOnePinTok(tk, i) ==
    IF tk.err THEN NilPin
    ELSE BTC_decodeFields(FieldsOf(SubSeq(tk.toks, i, Len(tk.toks))))

MVC_parseOpReturnScriptTok(p, pkScript) ==
    LET tk == MakeScriptTokenizer(pkScript)
        i == FindOpcode(tk.toks, OP_RETURN, 1)
    IN IF i = 0 THEN NilPin
       ELSE IF i + 1 > Len(tk.toks)
               \/ HexEncodeToString(tk.toks[i + 1].d) # p.config.ProtocolID
         THEN NilPin
       ELSE MVC_parseOnePinTok(tk, i + 2)

\* doge.parseOnePin
DOGE_parseOnePin(infoList) ==
    IF Len(infoList) < 1 THEN NilPin
    ELSE
      LET operation == ToLower(infoList[1].d)
      IN IF operation = S_init
           THEN <<[ZeroPin EXCEPT !.Operation = operation, !.Path = S_slash,
                                  !.Encryption = S_0, !.Version = S_0,
                                  !.ContentType = S_appjson]>>
         ELSE BTC_decodeFields(infoList)

\* the marker test of the DOGE scanners: the ASCII string or the configured hex
DOGE_isMarker(p, data) ==
    ~(data # S_metaid /\ HexEncodeToString(data) # p.config.ProtocolID)

DOGE_parsePinFromRedeemScript(p, redeemScript) ==
    LET tk == MakeScriptTokenizer(redeemScript)
        toks == tk.toks
    IN IF Len(toks) < 1 THEN NilPin
       ELSE IF Len(toks) < 2 \/ toks[2].op # OP_CHECKSIGVERIFY THEN NilPin
       ELSE IF Len(toks) < 3 \/ toks[3].op # OP_FALSE THEN NilPin
       ELSE IF Len(toks) < 4 \/ toks[4].op # OP_IF THEN NilPin
       ELSE IF Len(toks) < 5 THEN NilPin
       ELSE IF ~DOGE_isMarker(p, toks[5].d) THEN NilPin
       ELSE LET c == CollectFields(toks, 6)
            IN IF c.oversize THEN NilPin
               ELSE IF ~c.endif /\ tk.err THEN NilPin
               ELSE DOGE_parseOnePin(c.list)

\* the pushes with data of a tokenized script, in order
RECURSIVE NonEmptyData(_)
NonEmptyData(toks) ==
    IF toks = <<>> THEN <<>>
    ELSE (IF Len(Head(toks).d) > 0 THEN <<Head(toks).d>> ELSE <<>>)
         \o NonEmptyData(Tail(toks))

LooksLikeSignature(data) ==
    Len(data) >= 70 /\ Len(data) <= 73 /\ data[1] = 48

LooksLikePubKey(data) ==
    (Len(data) = 33 \/ Len(data) = 65) /\ data[1] \in {2, 3, 4}

\* the content loop of parsePinFromDirectScriptSig, from field i (1-based)
RECURSIVE DirectBody(_, _)
DirectBody(infoList, i) ==
    IF i > Len(infoList) THEN <<>>
    ELSE IF LooksLikeSignature(infoList[i]) \/ LooksLikePubKey(infoList[i]) THEN <<>>
    ELSE infoList[i] \o DirectBody(infoList, i + 1)

DOGE_parsePinFromDirectScriptSig(p, scriptSig) ==
    IF Len(scriptSig) < 7 THEN NilPin
    ELSE
      LET tk == MakeScriptTokenizer(scriptSig)
          infoList == NonEmptyData(tk.toks)
      IN IF tk.err THEN NilPin
         ELSE IF Len(infoList) < 6 THEN NilPin
         ELSE IF ~DOGE_isMarker(p, infoList[1]) THEN NilPin
         ELSE
           LET operation == ToLower(infoList[2])
               field5 == infoList[6]
               parts == SplitN2(field5, <<58>>)
               path == IF Len(parts) = 2 THEN NormalizePath(parts[2])
                       ELSE NormalizePath(field5)
           IN IF operation \notin {S_create, S_modify, S_revoke} THEN NilPin
              ELSE IF operation = S_revoke /\ Len(infoList) < 6 THEN NilPin
              ELSE IF operation # S_revoke /\ Len(infoList) < 7 THEN NilPin
              ELSE <<[ZeroPin EXCEPT
                        !.Operation = operation,
                        !.ContentType = NormalizeContentType(infoList[3]),
                        !.Encryption = infoList[4],
                        !.Version = infoList[5],
                        !.Path = path,
                        !.ParentPath = GetParentPath(path),
                        !.ContentBody = DirectBody(infoList, 7),
                        !.ContentLength = Len(DirectBody(infoList, 7))]>>

\* the scan of one input's SignatureScript in parseScriptSigPins: the
\* inline format first, then the last non-empty push as a redeem script
DOGE_parseScriptSig(p, scriptSig) ==
    IF Len(scriptSig) = 0 THEN NilPin
    ELSE
      LET direct == DOGE_parsePinFromDirectScriptSig(p, scriptSig)
          pushes == NonEmptyData(MakeScriptTokenizer(scriptSig).toks)
      IN IF direct # NilPin THEN direct
         ELSE IF pushes = <<>> THEN NilPin
         ELSE DOGE_parsePinFromRedeemScript(p, pushes[Len(pushes)])

-----------------------------------------------------------------------------
(* 64-bit integers: 8 little-endian byte digits, two's complement          *)

I64Zero == <<0, 0, 0, 0, 0, 0, 0, 0>>

\* int(b) for a byte b
I64OfByte(b) == <<b, 0, 0, 0, 0, 0, 0, 0>>

\* x * int(math.Pow(256, k)), wrapped to 64 bits
I64ShiftBytes(x, k) == [i \in 1..8 |-> IF i <= k THEN 0 ELSE x[i - k]]

\* x + y, wrapped to 64 bits
RECURSIVE I64AddFrom(_, _, _, _)
I64AddFrom(x, y, i, carry) ==
    IF i > 8 THEN <<>>
    ELSE LET t == x[i] + y[i] + carry
         IN <<t % 256>> \o I64AddFrom(x, y, i + 1, t \div 256)

I64Add(x, y) == I64AddFrom(x, y, 1, 0)

I64IsNeg(x) == x[8] >= 128

\* values below 2^24 are the ones a buffer of the model can satisfy
I64IsSmall(x) == \A i \in 4..8 : x[i] = 0

I64Int(x) == x[1] + 256 * x[2] + 65536 * x[3]

I64OfInt(n) ==
    <<n % 256, (n \div 256) % 256, (n \div 65536) % 256, 0, 0, 0, 0, 0>>

\* a loop bound or length as the model's integer: negative values are -1,
\* values of 2^24 or more are Huge (more than any buffer holds)
Huge == 16777216

I64Clamp(x) == IF I64IsNeg(x) THEN -1 ELSE IF I64IsSmall(x) THEN I64Int(x) ELSE Huge

\* uint32ToLittleEndianBytes(uint32(x))
uint32ToLittleEndianBytes(x) == SubSeq(x, 1, 4)

-----------------------------------------------------------------------------
(* mvc.decodeVarInt                                                        *)

\* the sum of int(buf[k+1]) * int(math.Pow(256, k-1)) for k = n down to 1
RECURSIVE VarIntSum(_, _)
VarIntSum(buf, k) ==
    IF k = 0 THEN I64Zero
    ELSE I64Add(I64ShiftBytes(I64OfByte(buf[k + 1]), k - 1), VarIntSum(buf, k - 1))

\* faulty variant of decodeVarInt: the 0xff form read as four bytes
decodeVarInt_short(buf) ==
    IF Len(buf) = 0 THEN <<I64Zero, 0>>
    ELSE IF buf[1] <= 252 THEN <<I64OfByte(buf[1]), 1>>
    ELSE IF buf[1] = 253
      THEN IF Len(buf) < 3 THEN <<I64Zero, 0>> ELSE <<VarIntSum(buf, 2), 3>>
    ELSE IF buf[1] = 254
      THEN IF Len(buf) < 5 THEN <<I64Zero, 0>> ELSE <<VarIntSum(buf, 4), 5>>
    ELSE IF Len(buf) < 9 THEN <<I64Zero, 0>> ELSE <<VarIntSum(buf, 4), 9>>

decodeVarInt(buf) ==
    IF Len(buf) = 0 THEN <<I64Zero, 0>>
    ELSE IF buf[1] <= 252 THEN <<I64OfByte(buf[1]), 1>>
    ELSE IF buf[1] = 253
      THEN IF Len(buf) < 3 THEN <<I64Zero, 0>> ELSE <<VarIntSum(buf, 2), 3>>
    ELSE IF buf[1] = 254
      THEN IF Len(buf) < 5 THEN <<I64Zero, 0>> ELSE <<VarIntSum(buf, 4), 5>>
    ELSE IF Len(buf) < 9 THEN <<I64Zero, 0>> ELSE <<VarIntSum(buf, 8), 9>>

-----------------------------------------------------------------------------
(* Hashing.  A digest is the term [t |-> "h", v |-> preimage]; a byte      *)
(* string that holds digests is a list of chunks, each concrete bytes      *)
(* [t |-> "b", v |-> bytes] or a digest.                                   *)

Bytes(b) == [t |-> "b", v |-> b]

sha256Hash(message) == [t |-> "h", v |-> message]

doubleHashB(b) == sha256Hash(sha256Hash(b))

\* reverseBytes of a digest
reverseBytes(digest) == [t |-> "reversed", v |-> digest]

FromHexChar(c) == IF c <= 57 THEN c - 48 ELSE IF c >= 97 THEN c - 87 ELSE c - 55

HexDecodeString(h) ==
    [i \in 1..(Len(h) \div 2) |-> 16 * FromHexChar(h[2 * i - 1]) + FromHexChar(h[2 * i])]

\* hex.EncodeToString and hex.DecodeString on a list of chunks
HexEncodeChunks(chunks) ==
    [i \in 1..Len(chunks) |->
        IF chunks[i].t = "b" THEN [t |-> "x", v |-> HexEncodeToString(chunks[i].v)]
        ELSE [t |-> "xh", v |-> chunks[i]]]

HexDecodeChunks(hexChunks) ==
    [i \in 1..Len(hexChunks) |->
        IF hexChunks[i].t = "x" THEN Bytes(HexDecodeString(hexChunks[i].v))
        ELSE hexChunks[i].v]

\* getTxID: the hex string of the reversed double SHA-256 of the decoded bytes
getTxID(hexChunks) ==
    [t |-> "hex", v |-> reverseBytes(doubleHashB(HexDecodeChunks(hexChunks)))]

\* msgTx.TxHash().String() of the wire package
TxHashString(serialized) ==
    [t |-> "hex", v |-> reverseBytes(doubleHashB(<<Bytes(serialized)>>))]

-----------------------------------------------------------------------------
(* The wire packages (btcd / bsvd): MsgTx, Serialize, Deserialize          *)

\* a MsgTx keeps Version, LockTime, Index, Sequence and Value as their
\* little-endian bytes
TxIn(hash, index, signatureScript, sequence, witness) ==
    [Hash |-> hash, Index |-> index, SignatureScript |-> signatureScript,
     Sequence |-> sequence, Witness |-> witness]

TxOut(value, pkScript) == [Value |-> value, PkScript |-> pkScript]

MsgTx(version, txIn, txOut, lockTime) ==
    [Version |-> version, TxIn |-> txIn, TxOut |-> txOut, LockTime |-> lockTime]

\* wire.WriteVarInt for the lengths of the model (below 2^24)
WriteVarInt(n) ==
    IF n < 253 THEN <<n>>
    ELSE IF n <= 65535 THEN <<253, n % 256, n \div 256>>
    ELSE <<254, n % 256, (n \div 256) % 256, n \div 65536, 0>>

SerializeTxIn(in) ==
    in.Hash \o in.Index \o WriteVarInt(Len(in.SignatureScript))
        \o in.SignatureScript \o in.Sequence

SerializeTxOut(out) ==
    out.Value \o WriteVarInt(Len(out.PkScript)) \o out.PkScript

\* MsgTx.Serialize of bsvd, MsgTx.SerializeNoWitness of btcd
Serialize(tx) ==
    tx.Version
      \o WriteVarInt(Len(tx.TxIn))
      \o Concat([i \in 1..Len(tx.TxIn) |-> SerializeTxIn(tx.TxIn[i])])
      \o WriteVarInt(Len(tx.TxOut))
      \o Concat([i \in 1..Len(tx.TxOut) |-> SerializeTxOut(tx.TxOut[i])])
      \o tx.LockTime

SerializeWitness(w) ==
    WriteVarInt(Len(w)) \o Concat([i \in 1..Len(w) |-> WriteVarInt(Len(w[i])) \o w[i]])

\* MsgTx.Serialize of btcd: the segwit encoding when an input has a witness
HasWitness(tx) == \E i \in 1..Len(tx.TxIn) : Len(tx.TxIn[i].Witness) > 0

SerializeWitnessTx(tx) ==
    IF ~HasWitness(tx) THEN Serialize(tx)
    ELSE tx.Version \o <<0, 1>>
      \o WriteVarInt(Len(tx.TxIn))
      \o Concat([i \in 1..Len(tx.TxIn) |-> SerializeTxIn(tx.TxIn[i])])
      \o WriteVarInt(Len(tx.TxOut))
      \o Concat([i \in 1..Len(tx.TxOut) |-> SerializeTxOut(tx.TxOut[i])])
      \o Concat([i \in 1..Len(tx.TxIn) |-> SerializeWitness(tx.TxIn[i].Witness)])
      \o tx.LockTime

\* readers over (buffer, position): [err, v, pos]
ReadFail == [err |-> TRUE, v |-> <<>>, pos |-> 0]

ReadBytes(b, pos, n) ==
    IF pos + n > Len(b) THEN ReadFail
    ELSE [err |-> FALSE, v |-> Slice(b, pos, pos + n), pos |-> pos + n]

\* wire.ReadVarInt: canonical encodings only; a 9-byte form, or a count of
\* 2^24 or more, is over every limit of the decoder
ReadVarInt(b, pos) ==
    IF pos + 1 > Len(b) THEN ReadFail
    ELSE
      LET d == b[pos + 1]
          w == IF d = 253 THEN 2 ELSE IF d = 254 THEN 4 ELSE 8
      IN IF d < 253 THEN [err |-> FALSE, v |-> d, pos |-> pos + 1]
         ELSE IF pos + 1 + w > Len(b) \/ w = 8 THEN ReadFail
         ELSE LET n == LittleEndian(Slice(b, pos + 1, pos + 1 + w))
                  min == IF w = 2 THEN 253 ELSE 65536
              IN IF n = TooLong \/ n < min THEN ReadFail
                 ELSE [err |-> FALSE, v |-> n, pos |-> pos + 1 + w]

ReadScript(b, pos) ==
    LET Data(n) == IF n.err THEN ReadFail ELSE ReadBytes(b, n.pos, n.v)
    IN Data(ReadVarInt(b, pos))

RECURSIVE ReadTxIns(_, _, _)
ReadTxIns(b, pos, count) ==
    IF count = 0 THEN [err |-> FALSE, v |-> <<>>, pos |-> pos]
    ELSE
      LET hash == ReadBytes(b, pos, 32)
          index == ReadBytes(b, pos + 32, 4)
          Rest(script) ==
              LET sequence == ReadBytes(b, script.pos, 4)
                  More(r) ==
                      IF r.err THEN ReadFail
                      ELSE [r EXCEPT !.v =
                              <<TxIn(hash.v, index.v, script.v, sequence.v, <<>>)>> \o r.v]
              IN IF script.err \/ sequence.err THEN ReadFail
                 ELSE More(ReadTxIns(b, script.pos + 4, count - 1))
      IN IF hash.err \/ index.err THEN ReadFail ELSE Rest(ReadScript(b, pos + 36))

RECURSIVE ReadTxOuts(_, _, _)
ReadTxOuts(b, pos, count) ==
    IF count = 0 THEN [err |-> FALSE, v |-> <<>>, pos |-> pos]
    ELSE
      LET value == ReadBytes(b, pos, 8)
          Rest(script) ==
              LET More(r) ==
                      IF r.err THEN ReadFail
                      ELSE [r EXCEPT !.v = <<TxOut(value.v, script.v)>> \o r.v]
              IN IF script.err THEN ReadFail
                 ELSE More(ReadTxOuts(b, script.pos, count - 1))
      IN IF value.err THEN ReadFail ELSE Rest(ReadScript(b, pos + 8))

RECURSIVE ReadItems(_, _, _)
ReadItems(b, pos, count) ==
    IF count = 0 THEN [err |-> FALSE, v |-> <<>>, pos |-> pos]
    ELSE
      LET Rest(item) ==
              LET More(r) == IF r.err THEN ReadFail ELSE [r EXCEPT !.v = <<item.v>> \o r.v]
              IN IF item.err THEN ReadFail ELSE More(ReadItems(b, item.pos, count - 1))
      IN Rest(ReadScript(b, pos))

\* the witness stacks of inputs k.. of txIn
RECURSIVE ReadWitnesses(_, _, _, _)
ReadWitnesses(b, pos, txIn, k) ==
    IF k > Len(txIn) THEN [err |-> FALSE, v |-> txIn, pos |-> pos]
    ELSE
      LET Stack(n) ==
              LET Rest(items) ==
                      IF items.err THEN ReadFail
                      ELSE ReadWitnesses(b, items.pos,
                             [txIn EXCEPT ![k].Witness = items.v], k + 1)
              IN IF n.err THEN ReadFail ELSE Rest(ReadItems(b, n.pos, n.v))
      IN Stack(ReadVarInt(b, pos))

\* MsgTx.Deserialize: [err, tx]; segwit tells btcd (marker 0, flag 1 after
\* the version) from bsvd; bytes after the lock time are not read
Deserialize(b, segwit) ==
    LET fail == [err |-> TRUE, tx |-> MsgTx(<<>>, <<>>, <<>>, <<>>)]
        version == ReadBytes(b, 0, 4)
        Witnessed(flagged, outs, wit) ==
            LET lockTime == ReadBytes(b, wit.pos, 4)
            IN IF wit.err \/ lockTime.err THEN fail
               ELSE [err |-> FALSE, tx |-> MsgTx(version.v, wit.v, outs.v, lockTime.v)]
        Outputs(flagged, ins, outs) ==
            IF outs.err THEN fail
            ELSE Witnessed(flagged, outs,
                   IF flagged THEN ReadWitnesses(b, outs.pos, ins.v, 1)
                   ELSE [err |-> FALSE, v |-> ins.v, pos |-> outs.pos])
        OutCount(flagged, ins, ocount) ==
            IF ocount.err THEN fail
            ELSE Outputs(flagged, ins, ReadTxOuts(b, ocount.pos, ocount.v))
        Inputs(flagged, ins) ==
            IF ins.err THEN fail ELSE OutCount(flagged, ins, ReadVarInt(b, ins.pos))
        InCount(flagged, count) ==
            IF count.err THEN fail
            ELSE Inputs(flagged, ReadTxIns(b, count.pos, count.v))
        Flagged(count0) ==
            LET flag == ReadBytes(b, 5, 1)
            IN IF flag.err \/ flag.v # <<1>> THEN fail
               ELSE InCount(TRUE, ReadVarInt(b, 6))
        Marker(count0) ==
            IF count0.err THEN fail
            ELSE IF segwit /\ count0.v = 0 THEN Flagged(count0)
            ELSE InCount(FALSE, count0)
    IN IF version.err THEN fail ELSE Marker(ReadVarInt(b, 4))

-----------------------------------------------------------------------------
(* The script classifier (txscript.ExtractPkScriptAddrs) and addresses     *)

\* chainParams as handed to ParseTransaction: nil, a *chaincfg.Params of
\* the chain's package, or a value of another type
P_nil == "nil"
P_MainNet == "MainNetParams"
P_TestNet3 == "TestNet3Params"
P_DogeMainNet == "DogeMainNetParams"
P_other == "other"

PubKeyHashAddrID(params) ==
    IF params = P_TestNet3 THEN 111 ELSE IF params = P_DogeMainNet THEN 30 ELSE 0

ScriptHashAddrID(params) ==
    IF params = P_TestNet3 THEN 196 ELSE IF params = P_DogeMainNet THEN 22 ELSE 5

\* EncodeAddress: the base58check string stands as version byte and hash
EncodeAddress(netID, hash) == <<netID>> \o hash

IsPubKeyHashScript(script) ==
    /\ Len(script) = 25
    /\ script[1] = OP_DUP /\ script[2] = OP_HASH160 /\ script[3] = 20
    /\ script[24] = OP_EQUALVERIFY /\ script[25] = OP_CHECKSIG

IsScriptHashScript(script) ==
    /\ Len(script) = 23
    /\ script[1] = OP_HASH160 /\ script[2] = 20 /\ script[23] = OP_EQUAL

\* OP_RETURN alone, or OP_RETURN and one push (or small integer) of at
\* most MaxDataCarrierSize bytes
MaxDataCarrierSize == 80

IsNullDataScript(script) ==
    \/ script = <<OP_RETURN>>
    \/ /\ Len(script) > 1
       /\ script[1] = OP_RETURN
       /\ LET tk == MakeScriptTokenizer(Tail(script))
          IN /\ ~tk.err
             /\ Len(tk.toks) = 1
             /\ tk.toks[1].op <= OP_PUSHDATA4 \/ tk.toks[1].op \in 81..96
             /\ Len(tk.toks[1].d) <= MaxDataCarrierSize

\* class.String() and the encoded addresses, for the script forms of the
\* model: pay-to-pubkey-hash, pay-to-script-hash, null data, anything else
ExtractPkScriptAddrs(pkScript, params) ==
    IF IsPubKeyHashScript(pkScript)
    THEN [class |-> "pubkeyhash",
          addresses |-> <<EncodeAddress(PubKeyHashAddrID(params), SubSeq(pkScript, 4, 23))>>]
    ELSE IF IsScriptHashScript(pkScript)
    THEN [class |-> "scripthash",
          addresses |-> <<EncodeAddress(ScriptHashAddrID(params), SubSeq(pkScript, 3, 22))>>]
    ELSE IF IsNullDataScript(pkScript)
    THEN [class |-> "nulldata", addresses |-> <<>>]
    ELSE [class |-> "nonstandard", addresses |-> <<>>]

-----------------------------------------------------------------------------
(* mvc: decodeRawTransaction, getTxNewRawByte, calculateTxHash             *)

\* faulty variant of VersionBelow10: only the low byte of the version read
VersionBelow10_lowByte(version) == version[1] < 10

\* uint64(binary.LittleEndian.Uint32(version)) < 10
VersionBelow10(version) ==
    version[1] < 10 /\ version[2] = 0 /\ version[3] = 0 /\ version[4] = 0

RawTransaction(txid, version, vins, vouts, lockTime, inSize, outSize) ==
    [TxID |-> txid, Version |-> version, Vins |-> vins, Vouts |-> vouts,
     LockTime |-> lockTime, inSize |-> inSize, outSize |-> outSize]

\* the three hashed parts, as chunk lists
NewInputsByte(vins) ==
    Concat([i \in 1..Len(vins) |-> vins[i].TxID \o vins[i].Vout \o vins[i].sequence])

NewInputs2Byte(vins) == [i \in 1..Len(vins) |-> sha256Hash(<<Bytes(vins[i].scriptSig)>>)]

NewOutputsByte(vouts) ==
    Concat([i \in 1..Len(vouts) |->
              <<Bytes(vouts[i].amount), sha256Hash(<<Bytes(vouts[i].lockScript)>>)>>])

getTxNewRawByte(transaction) ==
    << Bytes(transaction.Version),
       Bytes(transaction.LockTime),
       Bytes(uint32ToLittleEndianBytes(transaction.inSize)),
       Bytes(uint32ToLittleEndianBytes(transaction.outSize)),
       sha256Hash(<<Bytes(NewInputsByte(transaction.Vins))>>),
       sha256Hash(NewInputs2Byte(transaction.Vins)),
       sha256Hash(NewOutputsByte(transaction.Vouts)) >>

\* outcomes of the decoding loops: st is "ok", "err" (an error is returned)
\* or "panic" (a slice expression out of range)
Decoded(st, msg, index, list) == [st |-> st, msg |-> msg, index |-> index, list |-> list]

E_length == "invalid transaction data length"

\* the input loop with n inputs still to read (n < 0: the loop does not run)
RECURSIVE DecodeVins(_, _, _, _)
DecodeVins(txBytes, index, n, acc) ==
    LET limit == Len(txBytes)
    IN IF n <= 0 THEN Decoded("ok", "", index, acc)
       ELSE IF index + 32 > limit THEN Decoded("err", E_length, index, acc)
       ELSE IF index + 36 > limit THEN Decoded("err", E_length, index, acc)
       ELSE
         LET Script(scriptLen, at) ==
               IF scriptLen < 0 \/ at + scriptLen > limit THEN Decoded("panic", "", at, acc)
               ELSE IF at + scriptLen + 4 > limit THEN Decoded("panic", "", at, acc)
               ELSE DecodeVins(txBytes, at + scriptLen + 4, n - 1,
                      Append(acc, [TxID |-> Slice(txBytes, index, index + 32),
                                   Vout |-> Slice(txBytes, index + 32, index + 36),
                                   scriptSig |-> Slice(txBytes, at, at + scriptLen),
                                   sequence |-> Slice(txBytes, at + scriptLen,
                                                      at + scriptLen + 4)]))
             Length(dv) == Script(I64Clamp(dv[1]), index + 36 + dv[2])
         IN Length(decodeVarInt(Slice(txBytes, index + 36, limit)))

RECURSIVE DecodeVouts(_, _, _, _)
DecodeVouts(txBytes, index, n, acc) ==
    LET limit == Len(txBytes)
    IN IF n <= 0 THEN Decoded("ok", "", index, acc)
       ELSE IF index + 8 > limit THEN Decoded("err", E_length, index, acc)
       ELSE
         LET Script(lockScriptLen, at) ==
               IF lockScriptLen = 0
                 THEN Decoded("err", "invalid transaction data: empty lockScript", at, acc)
               ELSE IF lockScriptLen > 0 /\ at + lockScriptLen > limit
                 THEN Decoded("err", E_length, at, acc)
               ELSE IF lockScriptLen < 0 THEN Decoded("panic", "", at, acc)
               ELSE DecodeVouts(txBytes, at + lockScriptLen, n - 1,
                      Append(acc, [amount |-> Slice(txBytes, index, index + 8),
                                   lockScript |-> Slice(txBytes, at, at + lockScriptLen)]))
             Length(dv) == Script(I64Clamp(dv[1]), index + 8 + dv[2])
         IN Length(decodeVarInt(Slice(txBytes, index + 8, limit)))

\* decodeRawTransaction: [st, msg, tx]
NoRawTransaction == RawTransaction(NoHash, <<>>, <<>>, <<>>, <<>>, I64Zero, I64Zero)

RawResult(st, msg, tx) == [st |-> st, msg |-> msg, tx |-> tx]

decodeRawTransaction(txBytes) ==
    LET limit == Len(txBytes)
        fail(msg) == RawResult("err", msg, NoRawTransaction)
    IN IF limit = 0 THEN fail("invalid transaction data")
       ELSE IF 4 > limit THEN fail(E_length)
       ELSE
         LET version == Slice(txBytes, 0, 4)
             Identified(rawTx) ==
                 RawResult("ok", "",
                   [rawTx EXCEPT !.TxID =
                      IF VersionBelow10(version)
                      THEN getTxID(HexEncodeChunks(<<Bytes(txBytes)>>))
                      ELSE getTxID(HexEncodeChunks(getTxNewRawByte(rawTx)))])
             Outputs(dvIn, vins, dvOut, numOfVouts, vouts) ==
                 IF numOfVouts = 0 THEN fail("invalid transaction data: no outputs")
                 ELSE IF vouts.st # "ok" THEN RawResult(vouts.st, vouts.msg, NoRawTransaction)
                 ELSE IF vouts.index + 4 > limit THEN fail(E_length)
                 ELSE IF vouts.index + 4 # limit THEN fail("too much transaction data")
                 ELSE Identified(RawTransaction(NoHash, version, vins.list, vouts.list,
                                   Slice(txBytes, vouts.index, vouts.index + 4),
                                   dvIn[1], dvOut[1]))
             OutCount(dvIn, vins, dvOut, numOfVouts) ==
                 Outputs(dvIn, vins, dvOut, numOfVouts,
                         DecodeVouts(txBytes, vins.index + dvOut[2], numOfVouts, <<>>))
             Inputs(dvIn, numOfVins, vins) ==
                 IF numOfVins = 0 THEN fail("invalid transaction data: no inputs")
                 ELSE IF vins.st # "ok" THEN RawResult(vins.st, vins.msg, NoRawTransaction)
                 ELSE LET Count(dvOut) == OutCount(dvIn, vins, dvOut, I64Clamp(dvOut[1]))
                      IN Count(decodeVarInt(Slice(txBytes, vins.index, limit)))
             InCount(dvIn, numOfVins) ==
                 Inputs(dvIn, numOfVins, DecodeVins(txBytes, 4 + dvIn[2], numOfVins, <<>>))
             Start(dvIn) == InCount(dvIn, I64Clamp(dvIn[1]))
         IN Start(decodeVarInt(Slice(txBytes, 4, limit)))

\* calculateTxHash: [st, msg, hash]; msgTx.Serialize itself does not fail
calculateTxHash(msgTx, txBytes) ==
    LET Hash(raw) ==
            IF raw.st # "ok" THEN [st |-> raw.st, msg |-> raw.msg, hash |-> NoHash]
            ELSE IF VersionBelow10(raw.tx.Version)
              THEN [st |-> "ok", msg |-> "", hash |-> raw.tx.TxID]
            ELSE [st |-> "ok", msg |-> "",
                  hash |-> getTxID(HexEncodeChunks(getTxNewRawByte(raw.tx)))]
    IN Hash(decodeRawTransaction(Serialize(msgTx)))

-----------------------------------------------------------------------------
(* Owner resolution                                                        *)

Owner(address, vout, outValue, locationIdx) ==
    [address |-> address, vout |-> vout, outValue |-> outValue, locationIdx |-> locationIdx]

ZeroValue == Repeat(0, 8)

NoOwner == Owner(<<>>, 0, ZeroValue, 0)

\* btc.getOpReturnOwner from output i on
RECURSIVE BTC_getOpReturnOwnerFrom(_, _, _)
BTC_getOpReturnOwnerFrom(tx, params, i) ==
    IF i > Len(tx.TxOut) THEN NoOwner
    ELSE LET e == ExtractPkScriptAddrs(tx.TxOut[i].PkScript, params)
         IN IF e.class # "nonstandard" /\ Len(e.addresses) > 0
            THEN Owner(e.addresses[1], i - 1, ZeroValue, 0)
            ELSE BTC_getOpReturnOwnerFrom(tx, params, i + 1)

BTC_getOpReturnOwner(tx, params) == BTC_getOpReturnOwnerFrom(tx, params, 1)

\* btc.getWitnessOwner: output 0; the second branch leaves outValue zero
BTC_getWitnessOwner(tx, inIdx, params) ==
    IF Len(tx.TxOut) = 0 THEN NoOwner
    ELSE LET e == ExtractPkScriptAddrs(tx.TxOut[1].PkScript, params)
             simple == Len(tx.TxIn) = 1 \/ Len(tx.TxOut) = 1 \/ inIdx = 0
         IN IF Len(e.addresses) = 0 THEN NoOwner
            ELSE Owner(e.addresses[1], 0,
                       IF simple THEN tx.TxOut[1].Value ELSE ZeroValue, 0)

\* doge.getScriptSigOwner: output 0 in both branches
DOGE_getScriptSigOwner(tx, inIdx, params) ==
    IF Len(tx.TxOut) = 0 THEN NoOwner
    ELSE LET e == ExtractPkScriptAddrs(tx.TxOut[1].PkScript, params)
         IN IF Len(e.addresses) = 0 THEN NoOwner
            ELSE Owner(e.addresses[1], 0, tx.TxOut[1].Value, 0)

\* mvc.getOwner: the classifier of btcd, on its main or test network
RECURSIVE MVC_getOwnerFrom(_, _, _)
MVC_getOwnerFrom(tx, params, i) ==
    IF i > Len(tx.TxOut) THEN NoOwner
    ELSE LET params2 == IF params = P_TestNet3 THEN P_TestNet3 ELSE P_MainNet
             e == ExtractPkScriptAddrs(tx.TxOut[i].PkScript, params2)
         IN IF e.class # "nulldata" /\ e.class # "nonstandard" /\ Len(e.addresses) > 0
            THEN Owner(e.addresses[1], i - 1, tx.TxOut[i].Value, 0)
            ELSE MVC_getOwnerFrom(tx, params, i + 1)

MVC_getOwner(tx, params) == MVC_getOwnerFrom(tx, params, 1)

-----------------------------------------------------------------------------
(* ParseTransaction of the three parsers                                   *)

\* fmt.Sprintf("%si%d"), ("%s:%d:%d") and ("%s:%d") keep their arguments
IdOf(txHash, vout) == <<txHash, "i", vout>>
LocationOf(txHash, vout, locationIdx) == <<txHash, ":", vout, ":", locationIdx>>
OutputOf(txHash, vout) == <<txHash, ":", vout>>

\* ([]*decoder.Pin, error); err = "" is the nil error
Result(pins, err) == [pins |-> pins, err |-> err]

E_params == "invalid chainParams type"
E_deserialize == "failed to deserialize transaction"
E_txhash == "failed to calculate tx hash"

\* faulty variant of btc.parseOpReturnPins: no break after the first PIN
RECURSIVE BTC_parseOpReturnPins_noBreak(_, _, _, _)
BTC_parseOpReturnPins_noBreak(p, msgTx, params, i) ==
    IF i > Len(msgTx.TxOut) THEN <<>>
    ELSE
      LET out == msgTx.TxOut[i]
          class == ExtractPkScriptAddrs(out.PkScript, params).class
          Owned(pin, owner, rest) ==
              IF class # "nonstandard" \/ pin = NilPin \/ owner.address = <<>> THEN rest
              ELSE <<[pin[1] EXCEPT
                        !.TxID = TxHashString(Serialize(msgTx)),
                        !.Vout = owner.vout,
                        !.OwnerAddress = owner.address,
                        !.OwnerMetaId = CalculateMetaId(owner.address),
                        !.ChainName = "btc",
                        !.InscriptionTxIndex = i - 1]>> \o rest
      IN Owned(BTC_parseOpReturnScript(p, out.PkScript), BTC_getOpReturnOwner(msgTx, params),
               BTC_parseOpReturnPins_noBreak(p, msgTx, params, i + 1))

\* btc.parseOpReturnPins from output i on
RECURSIVE BTC_parseOpReturnPinsFrom(_, _, _, _)
BTC_parseOpReturnPinsFrom(p, msgTx, params, i) ==
    IF i > Len(msgTx.TxOut) THEN <<>>
    ELSE
      LET out == msgTx.TxOut[i]
          class == ExtractPkScriptAddrs(out.PkScript, params).class
          Owned(pin, owner) ==
              IF class # "nonstandard" \/ pin = NilPin \/ owner.address = <<>>
              THEN BTC_parseOpReturnPinsFrom(p, msgTx, params, i + 1)
              ELSE <<[pin[1] EXCEPT
                        !.TxID = TxHashString(Serialize(msgTx)),
                        !.Vout = owner.vout,
                        !.OwnerAddress = owner.address,
                        !.OwnerMetaId = CalculateMetaId(owner.address),
                        !.ChainName = "btc",
                        !.InscriptionTxIndex = i - 1]>>
      IN Owned(BTC_parseOpReturnScript(p, out.PkScript), BTC_getOpReturnOwner(msgTx, params))

BTC_parseOpReturnPins(p, msgTx, params) == BTC_parseOpReturnPinsFrom(p, msgTx, params, 1)

\* the witness item scanned for input txIn, <<>> when the input is skipped
BTC_witnessScript(txIn) ==
    LET w == txIn.Witness
        n == Len(w)
    IN IF n <= 1 THEN <<>>
       ELSE IF Len(w[n]) <= 1 THEN <<>>
       ELSE IF n = 2 /\ w[n][1] = TaprootAnnexTag THEN <<>>
       ELSE IF w[n][1] = TaprootAnnexTag THEN w[n]
       ELSE w[n - 1]

RECURSIVE BTC_parseWitnessPinsFrom(_, _, _, _)
BTC_parseWitnessPinsFrom(p, msgTx, params, i) ==
    IF i > Len(msgTx.TxIn) THEN <<>>
    ELSE
      LET Scan(witnessScript) ==
              IF Len(witnessScript) = 0 THEN NilPin
              ELSE BTC_parseWitnessScript(p, witnessScript)
          Owned(pin, o, txHash, rest) ==
              LET address == IF o.address = <<>> THEN S_unknown ELSE o.address
                  vout == IF o.address = <<>> THEN 0 ELSE o.vout
              IN IF pin = NilPin THEN rest
                 ELSE <<[pin[1] EXCEPT
                           !.Id = IdOf(txHash, vout),
                           !.TxID = txHash,
                           !.Vout = vout,
                           !.OwnerAddress = address,
                           !.OwnerMetaId = CalculateMetaId(address),
                           !.ChainName = "btc",
                           !.InscriptionTxIndex = i - 1,
                           !.Location = LocationOf(txHash, vout, o.locationIdx),
                           !.Offset = vout,
                           !.Output = OutputOf(txHash, vout),
                           !.OutputValue = o.outValue]>> \o rest
      IN Owned(Scan(BTC_witnessScript(msgTx.TxIn[i])),
               BTC_getWitnessOwner(msgTx, i - 1, params),
               TxHashString(Serialize(msgTx)),
               BTC_parseWitnessPinsFrom(p, msgTx, params, i + 1))

\* faulty variant of btc.parseWitnessPins: the scan ends with its first PIN
BTC_parseWitnessPins_first(p, msgTx, params) ==
    LET First(pins) == IF pins = <<>> THEN <<>> ELSE <<pins[1]>>
    IN First(BTC_parseWitnessPinsFrom(p, msgTx, params, 1))

BTC_parseWitnessPins(p, msgTx, params) == BTC_parseWitnessPinsFrom(p, msgTx, params, 1)

\* faulty variant of btc.ParseTransaction: the witness scan always made
BTC_ParseTransaction_both(p, txBytes, chainParams) ==
    LET params == IF chainParams = P_nil THEN P_MainNet ELSE chainParams
        Parsed(d) ==
            IF d.err THEN Result(<<>>, E_deserialize)
            ELSE Result(BTC_parseOpReturnPins(p, d.tx, params)
                          \o BTC_parseWitnessPins(p, d.tx, params), "")
    IN IF chainParams = P_other THEN Result(<<>>, E_params)
       ELSE Parsed(Deserialize(txBytes, TRUE))

BTC_ParseTransaction(p, txBytes, chainParams) ==
    LET params == IF chainParams = P_nil THEN P_MainNet ELSE chainParams
        Pins(msgTx, opReturnPins) ==
            IF Len(opReturnPins) > 0 THEN Result(opReturnPins, "")
            ELSE Result(BTC_parseWitnessPins(p, msgTx, params), "")
        Parsed(d) ==
            IF d.err THEN Result(<<>>, E_deserialize)
            ELSE Pins(d.tx, BTC_parseOpReturnPins(p, d.tx, params))
    IN IF chainParams = P_other THEN Result(<<>>, E_params)
       ELSE Parsed(Deserialize(txBytes, TRUE))

\* mvc.ParseTransaction: the output loop from output i on
RECURSIVE MVC_parseOutputsFrom(_, _, _, _, _)
MVC_parseOutputsFrom(p, msgTx, params, txHash, i) ==
    IF i > Len(msgTx.TxOut) THEN <<>>
    ELSE
      LET out == msgTx.TxOut[i]
          class == ExtractPkScriptAddrs(out.PkScript, params).class
          Owned(pin, o) ==
              IF class # "nonstandard" \/ pin = NilPin \/ o.address = <<>>
              THEN MVC_parseOutputsFrom(p, msgTx, params, txHash, i + 1)
              ELSE <<[pin[1] EXCEPT
                        !.Id = IdOf(txHash, o.vout),
                        !.TxID = txHash,
                        !.Vout = i - 1,
                        !.OwnerAddress = o.address,
                        !.OwnerMetaId = CalculateMetaId(o.address),
                        !.ChainName = "mvc",
                        !.InscriptionTxIndex = i - 1,
                        !.Location = LocationOf(txHash, o.vout, o.locationIdx),
                        !.Offset = o.vout,
                        !.Output = OutputOf(txHash, o.vout),
                        !.OutputValue = o.outValue]>>
      IN Owned(MVC_parseOpReturnScript(p, out.PkScript), MVC_getOwner(msgTx, params))

\* faulty variant of mvc.ParseTransaction: the identifier error dropped
MVC_ParseTransaction_noHashErr(p, txBytes, chainParams) ==
    LET params == IF chainParams = P_nil THEN P_MainNet ELSE chainParams
        Hashed(msgTx, h) == Result(MVC_parseOutputsFrom(p, msgTx, params, h.hash, 1), "")
        Parsed(d) ==
            IF d.err THEN Result(<<>>, E_deserialize)
            ELSE Hashed(d.tx, calculateTxHash(d.tx, txBytes))
    IN IF chainParams = P_other THEN Result(<<>>, E_params)
       ELSE Parsed(Deserialize(txBytes, FALSE))

MVC_ParseTransaction(p, txBytes, chainParams) ==
    LET params == IF chainParams = P_nil THEN P_MainNet ELSE chainParams
        Hashed(msgTx, h) ==
            IF h.st # "ok" THEN Result(<<>>, E_txhash)
            ELSE Result(MVC_parseOutputsFrom(p, msgTx, params, h.hash, 1), "")
        Parsed(d) ==
            IF d.err THEN Result(<<>>, E_deserialize)
            ELSE Hashed(d.tx, calculateTxHash(d.tx, txBytes))
    IN IF chainParams = P_other THEN Result(<<>>, E_params)
       ELSE Parsed(Deserialize(txBytes, FALSE))

\* doge.parseScriptSigPins from input i on
RECURSIVE DOGE_parseScriptSigPinsFrom(_, _, _, _)
DOGE_parseScriptSigPinsFrom(p, msgTx, params, i) ==
    IF i > Len(msgTx.TxIn) THEN <<>>
    ELSE
      LET input == msgTx.TxIn[i]
          Owned(pin, o, txHash, rest) ==
              LET vout == IF o.address = <<>> THEN 0 ELSE o.vout
              IN IF pin = NilPin THEN rest
                 ELSE <<[pin[1] EXCEPT
                           !.Id = IdOf(txHash, vout),
                           !.TxID = txHash,
                           !.Vout = vout,
                           !.OwnerAddress = o.address,
                           !.OwnerMetaId = CalculateMetaId(o.address),
                           !.ChainName = "doge",
                           !.InscriptionTxIndex = i - 1,
                           !.CreatorInputTxVinLocation =
                               <<HexEncodeToString(Reverse(input.Hash)), ":", input.Index>>,
                           !.Location = LocationOf(txHash, vout, o.locationIdx),
                           !.Offset = vout,
                           !.Output = OutputOf(txHash, vout),
                           !.OutputValue = o.outValue]>> \o rest
      IN Owned(IF Len(input.SignatureScript) = 0 THEN NilPin
               ELSE DOGE_parseScriptSig(p, input.SignatureScript),
               DOGE_getScriptSigOwner(msgTx, i - 1, params),
               TxHashString(Serialize(msgTx)),
               DOGE_parseScriptSigPinsFrom(p, msgTx, params, i + 1))

\* faulty variant of doge.ParseTransaction: the deserialization error dropped
DOGE_ParseTransaction_noErr(p, txBytes, chainParams) ==
    LET params == IF chainParams = P_nil THEN P_DogeMainNet ELSE chainParams
        d == Deserialize(txBytes, TRUE)
    IN IF chainParams = P_other THEN Result(<<>>, E_params)
       ELSE Result(DOGE_parseScriptSigPinsFrom(p, d.tx, params, 1), "")

DOGE_ParseTransaction(p, txBytes, chainParams) ==
    LET params == IF chainParams = P_nil THEN P_DogeMainNet ELSE chainParams
        Parsed(d) ==
            IF d.err THEN Result(<<>>, E_deserialize)
            ELSE Result(DOGE_parseScriptSigPinsFrom(p, d.tx, params, 1), "")
    IN IF chainParams = P_other THEN Result(<<>>, E_params)
       ELSE Parsed(Deserialize(txBytes, TRUE))

\* faulty variant of ParseTransaction: a parser that answers nothing for
\* bytes it has parsed before
ParseTransaction_once(p, txBytes, chainParams) ==
    IF seen.recorded /\ seen.txBytes = txBytes THEN Result(<<>>, "")
    ELSE IF p.chain = "btc" THEN BTC_ParseTransaction(p, txBytes, chainParams)
    ELSE IF p.chain = "mvc" THEN MVC_ParseTransaction(p, txBytes, chainParams)
    ELSE DOGE_ParseTransaction(p, txBytes, chainParams)

\* Parser.ParseTransaction, dispatched on the parser's chain
ParseTransaction(p, txBytes, chainParams) ==
    IF p.chain = "btc" THEN BTC_ParseTransaction(p, txBytes, chainParams)
    ELSE IF p.chain = "mvc" THEN MVC_ParseTransaction(p, txBytes, chainParams)
    ELSE DOGE_ParseTransaction(p, txBytes, chainParams)

-----------------------------------------------------------------------------
(* Inputs: scripts and transactions, built from short descriptions          *)

\* the canonical push of data
PushData(data) ==
    IF Len(data) = 0 THEN <<OP_0>>
    ELSE IF Len(data) <= 75 THEN <<Len(data)>> \o data
    ELSE IF Len(data) <= 255 THEN <<OP_PUSHDATA1, Len(data)>> \o data
    ELSE <<OP_PUSHDATA2, Len(data) % 256, Len(data) \div 256>> \o data

PushAll(fields) == Concat([i \in 1..Len(fields) |-> PushData(fields[i])])

\* the encodings of a push: the shortest one, or the shortest one with an
\* empty push written as OP_PUSHDATA1 with length 0
PushEncodings == {"minimal", "pushdata1"}

PushDataAs(enc, data) ==
    IF enc = "pushdata1" /\ Len(data) = 0 THEN <<OP_PUSHDATA1, 0>> ELSE PushData(data)

PushAllAs(enc, fields) == Concat([i \in 1..Len(fields) |-> PushDataAs(enc, fields[i])])

\* byte strings shaped like a DER signature, a compressed public key,
\* a Schnorr signature, an x-only key and a taproot control block
Sig71 == <<48>> \o Repeat(68, 70)
PubKey33 == <<2>> \o Repeat(7, 32)
Sig64 == Repeat(9, 64)
PubKey32 == Repeat(7, 32)
Control33 == <<192>> \o Repeat(7, 32)
Annex == <<80, 1, 2>>

\* bounds of the input universes
MaxFields == 7
MaxOuts == 3
MaxIns == 2
MaxTrail == 2
MaxCut == 12

S_delete == <<100, 101, 108, 101, 116, 101>>
S_metaiD == <<109, 101, 116, 97, 105, 68>>
S_metai == <<109, 101, 116, 97, 105>>

Ops == {S_create, S_modify, S_revoke, S_CREATE, S_init, S_delete}

\* field k of the standard layout after the marker: operation, path,
\* encryption, version, content type, then content chunks
StdField(op, k) ==
    IF k = 1 THEN op
    ELSE IF k = 2 THEN S_simplebuzz
    ELSE IF k = 3 THEN S_0
    ELSE IF k = 4 THEN S_1_0
    ELSE IF k = 5 THEN S_textplain
    ELSE IF k % 2 = 0 THEN S_hel ELSE S_lo

FieldList(op, n) == [k \in 1..n |-> StdField(op, k)]

\* field k of the inline layout after the marker: operation, content type,
\* encryption, version, path, then content chunks
InlineField(op, k) ==
    IF k = 1 THEN op
    ELSE IF k = 2 THEN S_textplain
    ELSE IF k = 3 THEN S_0
    ELSE IF k = 4 THEN S_1_0
    ELSE IF k = 5 THEN S_simplebuzz
    ELSE IF k % 2 = 0 THEN S_hel ELSE S_lo

InlineList(op, n) == [k \in 1..n |-> InlineField(op, k)]

\* " Text/Plain "
S_TextPlainMixed == <<32, 84, 101, 120, 116, 47, 80, 108, 97, 105, 110, 32>>

\* a list with the fields at the indices of K replaced by v
WithFields(list, K, v) == [k \in 1..Len(list) |-> IF k \in K THEN v ELSE list[k]]

\* the field lists handed to the field decoders
StdFieldLists ==
    {FieldList(op, n) : op \in Ops, n \in 0..MaxFields}
      \cup {WithFields(FieldList(S_create, 6), {3, 4, 5}, <<>>),
            WithFields(FieldList(S_revoke, 5), {3}, <<>>),
            WithFields(FieldList(S_modify, 6), {5}, S_TextPlainMixed),
            WithFields(FieldList(S_create, 6), {2}, S_PathMixed),
            WithFields(FieldList(S_create, 6), {2}, S_NoSlash)}
      \cup {WithFields(FieldList(S_create, 6), {2}, f) :
               f \in {S_AddrPath, S_HostPortPath, S_ColonPath}}
      \cup {FieldList(S_create, 5) \o <<S_hel, Sig71, S_lo>>,
            FieldList(S_create, 5) \o <<PubKey33, S_hello>>,
            FieldList(S_create, 5) \o <<Repeat(97, MaxFieldSize)>>,
            FieldList(S_create, 5) \o <<Repeat(97, MaxFieldSize + 1)>>,
            FieldList(S_modify, 5) \o <<S_hel, <<>>, S_lo>>}

InlineFieldLists ==
    {InlineList(op, n) : op \in Ops, n \in 0..MaxFields}
      \cup {WithFields(InlineList(S_create, 7), {3}, <<>>),
            WithFields(InlineList(S_create, 7), {2}, <<>>),
            WithFields(InlineList(S_modify, 6), {2}, S_TextPlainMixed),
            WithFields(InlineList(S_create, 7), {5}, S_PathMixed),
            WithFields(InlineList(S_create, 7), {5}, S_NoSlash)}
      \cup {WithFields(InlineList(S_create, 7), {5}, f) :
               f \in {S_AddrPath, S_HostPortPath, S_ColonPath}}
      \cup {InlineList(op, n) \o <<Sig71, PubKey33>> :
               op \in {S_create, S_revoke}, n \in 4..MaxFields}
      \cup {InlineList(S_create, 5) \o <<S_hel, PubKey33, S_lo>>,
            InlineList(S_modify, 6) \o <<Sig71, S_lo, PubKey33>>,
            InlineList(S_create, 5) \o <<<<48>> \o Repeat(68, 68), <<2>> \o Repeat(7, 33)>>,
            InlineList(S_create, 5) \o <<<<49>> \o Repeat(68, 70), <<5>> \o Repeat(7, 32)>>,
            InlineList(S_create, 5) \o <<<<4>> \o Repeat(7, 64)>>,
            InlineList(S_create, 5) \o <<<<48>> \o Repeat(68, 72), S_lo>>,
            InlineList(S_create, 5) \o <<<<48>> \o Repeat(68, 73), S_lo>>}

\* locking scripts
P2PKH(hash) == <<OP_DUP, OP_HASH160, 20>> \o hash \o <<OP_EQUALVERIFY, OP_CHECKSIG>>
P2SH(hash) == <<OP_HASH160, 20>> \o hash \o <<OP_EQUAL>>
OpReturnScript(marker, fields) == <<OP_RETURN>> \o PushAll(<<marker>> \o fields)

\* the envelope body of the witness and redeem-script carriers
Envelope(marker, fields) ==
    <<OP_FALSE, OP_IF>> \o PushAll(<<marker>> \o fields) \o <<OP_ENDIF>>

WitnessScript(marker, fields) ==
    PushData(PubKey32) \o <<OP_CHECKSIG>> \o Envelope(marker, fields)

RedeemScript(marker, fields) ==
    PushData(PubKey33) \o <<OP_CHECKSIGVERIFY>> \o Envelope(marker, fields)

InlineScriptSig(marker, fields) == PushAll(<<marker>> \o fields)

\* outputs by kind; the output at position k pays to its own hash
CoreOutKinds == {"addr", "null", "envA", "envB"}
SpecialOutKinds == {"p2sh", "empty", "junk", "envC"}

EnvMarker(kind) == IF kind = "envC" THEN S_testid ELSE S_metaid

EnvFields(kind) ==
    IF kind = "envA" THEN FieldList(S_create, 5) \o <<S_hello>>
    ELSE IF kind = "envB" THEN FieldList(S_revoke, 5)
    ELSE FieldList(S_modify, 6)

IsEnvKind(kind) == kind \in {"envA", "envB", "envC"}

OutScript(kind, k) ==
    IF kind = "addr" THEN P2PKH(Repeat(k, 20))
    ELSE IF kind = "p2sh" THEN P2SH(Repeat(k, 20))
    ELSE IF kind = "null" THEN <<OP_RETURN>> \o PushData(S_hello)
    ELSE IF kind = "empty" THEN <<>>
    ELSE IF kind = "junk" THEN <<OP_DUP, OP_DUP>>
    ELSE OpReturnScript(EnvMarker(kind), EnvFields(kind))

OutOf(kind, k) == TxOut(<<k, 3, 0, 0, 0, 0, 0, 0>>, OutScript(kind, k))

\* inputs by kind; the input at position k spends output k of its own hash
InKinds == {"plain", "none", "inline", "redeem", "wit"}

InScriptSig(kind) ==
    IF kind = "plain" THEN PushAll(<<Sig71, PubKey33>>)
    ELSE IF kind = "inline"
      THEN InlineScriptSig(S_metaid, InlineList(S_create, 7) \o <<Sig71, PubKey33>>)
    ELSE IF kind = "redeem"
      THEN PushAll(<<Sig71, RedeemScript(S_metaid, FieldList(S_modify, 7))>>)
    ELSE IF kind = "redeemShort"
      THEN PushAll(<<Sig71, RedeemScript(S_metaid, FieldList(S_create, 4))>>)
    ELSE IF kind = "both"
      THEN InlineScriptSig(S_metaid, InlineList(S_create, 7)
                                       \o <<RedeemScript(S_metaid, FieldList(S_modify, 7))>>)
    ELSE <<>>

InWitness(kind) ==
    IF kind = "wit"
    THEN <<Sig64, WitnessScript(S_metaid, FieldList(S_create, 7)), Control33>>
    ELSE IF kind = "witShort"
    THEN <<Sig64, WitnessScript(S_metaid, FieldList(S_revoke, 3)), Control33>>
    ELSE IF kind = "witAnnex"
    THEN <<Sig64, WitnessScript(S_metaid, FieldList(S_create, 7)), Control33, Annex>>
    ELSE IF kind = "witInAnnex"
    THEN <<Sig64, Control33,
           <<TaprootAnnexTag>> \o Envelope(S_metaid, FieldList(S_create, 7))>>
    ELSE IF kind = "witLast"
    THEN <<Sig64, Control33, WitnessScript(S_metaid, FieldList(S_create, 7))>>
    ELSE IF kind = "witOne"
    THEN <<WitnessScript(S_metaid, FieldList(S_create, 7))>>
    ELSE IF kind = "witTiny"
    THEN <<WitnessScript(S_metaid, FieldList(S_create, 7)), <<1>>>>
    ELSE IF kind = "witTwoAnnex"
    THEN <<WitnessScript(S_metaid, FieldList(S_create, 7)), Annex>>
    ELSE <<>>

InOf(kind, k) ==
    TxIn(Repeat(16 + k, 32), <<k, 0, 0, 0>>, InScriptSig(kind),
         <<255, 255, 255, 255>>, InWitness(kind))

\* a transaction description: version bytes, input kinds, output kinds
Desc(version, ins, outs) == [version |-> version, ins |-> ins, outs |-> outs]

TxOf(desc) ==
    MsgTx(desc.version,
          [k \in 1..Len(desc.ins) |-> InOf(desc.ins[k], k)],
          [k \in 1..Len(desc.outs) |-> OutOf(desc.outs[k], k)],
          <<0, 0, 0, 0>>)

V2 == <<2, 0, 0, 0>>
V10 == <<10, 0, 0, 0>>

Versions ==
    {<<1, 0, 0, 0>>, V2, <<9, 0, 0, 0>>, V10, <<11, 0, 0, 0>>,
     <<0, 1, 0, 0>>, <<5, 0, 0, 128>>, <<255, 255, 255, 255>>}

SeqsUpTo(S, n) == UNION {[1..m -> S] : m \in 0..n}

OutLists ==
    SeqsUpTo(CoreOutKinds, MaxOuts)
      \cup UNION {{[l EXCEPT ![i] = s] : i \in 1..Len(l), s \in SpecialOutKinds} :
                    l \in SeqsUpTo({"addr", "envA"}, MaxOuts)}

InLists == SeqsUpTo(InKinds, MaxIns)

\* witness stacks with the envelope before an annex, inside an item that
\* bears the annex tag, in the last item, alone, before a one-byte item,
\* and before an annex in a stack of two
StackInKinds == {"witAnnex", "witInAnnex", "witLast", "witOne", "witTiny", "witTwoAnnex"}

\* inputs whose envelope is complete, or too short for its operation
EnvInKinds == {"wit", "witShort", "redeem", "redeemShort"}

\* the transaction descriptions: every output list under one input, every
\* input list over three output lists, every version over two, and the
\* two markers side by side
Descs ==
    {Desc(V10, <<"plain">>, outs) : outs \in OutLists}
      \cup {Desc(V2, ins, outs) :
              ins \in InLists, outs \in {<<"addr">>, <<"envA", "addr">>, <<"junk">>}}
      \cup {Desc(v, <<"plain">>, outs) :
              v \in Versions, outs \in {<<"envA", "addr">>, <<"addr", "envB">>}}
      \cup {Desc(V2, <<"none">>, outs) : outs \in SeqsUpTo({"addr", "envA", "envC"}, 2)}
      \cup {Desc(V2, ins, <<"addr", "addr">>) : ins \in [1..MaxIns -> EnvInKinds]}
      \cup {Desc(V2, <<kind>>, <<"addr">>) : kind \in StackInKinds}
      \cup {Desc(V2, <<"both">>, <<"addr">>)}

\* the bytes handed to a parser: the segwit encoding except on MVC
TxBytes(chain, tx) == IF chain = "mvc" THEN Serialize(tx) ELSE SerializeWitnessTx(tx)

\* configurations handed to the constructors
Configs == {NilConfig, DefaultConfig, Config(CustomProtocolID), Config(<<>>)}

BaseDesc == Desc(V10, <<"plain">>, <<"envA", "addr">>)

\* the count of inputs written as 0xfd 0x01 0x00, which no reader accepts
BadVarIntBytes ==
    LET tx == TxOf(BaseDesc)
    IN tx.Version \o <<253, 1, 0>> \o SerializeTxIn(tx.TxIn[1])
         \o WriteVarInt(Len(tx.TxOut))
         \o Concat([i \in 1..Len(tx.TxOut) |-> SerializeTxOut(tx.TxOut[i])])
         \o tx.LockTime

TxInput(txBytes, chainParams, src) ==
    [txBytes |-> txBytes, chainParams |-> chainParams, src |-> src]

\* the inputs of ParseTransaction: [txBytes, chainParams, src]
TxInputs(p) ==
    LET base == TxBytes(p.chain, TxOf(BaseDesc))
    IN {TxInput(TxBytes(p.chain, TxOf(d)), P_nil, [kind |-> "tx", desc |-> d]) :
           d \in Descs}
         \cup {TxInput(TxBytes(p.chain, TxOf(d)), cp, [kind |-> "tx", desc |-> d]) :
                 cp \in {P_MainNet, P_TestNet3, P_other},
                 d \in {BaseDesc, Desc(V2, <<"inline">>, <<"p2sh">>),
                        Desc(V2, <<"wit">>, <<"addr">>)}}
         \cup {TxInput(base \o Repeat(0, n), P_nil, [kind |-> "tx", desc |-> BaseDesc]) :
                 n \in 1..MaxTrail}
         \cup {TxInput(Slice(base, 0, n), P_nil, [kind |-> "cut"]) : n \in 0..MaxCut}
         \cup {TxInput(Slice(base, 0, Len(base) - n), P_nil, [kind |-> "cut"]) :
                 n \in 1..MaxCut}
         \cup {TxInput(<<1, 2, 3>>, cp, [kind |-> "cut"]) : cp \in {P_nil, P_other}}
         \cup {TxInput(BadVarIntBytes, P_nil, [kind |-> "badvarint"])}

\* OP_RETURN scripts for the scanners: an optional leading OP_0, an optional
\* opcode between OP_RETURN and the pushes, a first push, then fields
Markers == {S_metaid, S_testid, S_metaiD, S_metai, S_metaid \o <<100>>, <<>>}

\* a complete create list whose content field has n bytes
LongFieldList(n) == FieldList(S_create, 5) \o <<Repeat(97, n)>>

ScanFieldLists ==
    {FieldList(S_create, 7), FieldList(S_revoke, 5), FieldList(S_modify, 4), <<>>,
     LongFieldList(MaxFieldSize), LongFieldList(MaxFieldSize + 1)}

ScriptDesc(lead, marker, fields) == [lead |-> lead, marker |-> marker, fields |-> fields]

ScriptDescs ==
    {ScriptDesc(lead, marker, fields) :
        lead \in {"", "op0", "dup", "endif"}, marker \in Markers,
        fields \in ScanFieldLists}

\* the pushes of a script description; with the lead "endif" an OP_ENDIF
\* stands before the last push
ScriptPushes(sd) ==
    LET all == <<sd.marker>> \o sd.fields
    IN IF sd.lead = "endif"
       THEN PushAll(SubSeq(all, 1, Len(all) - 1)) \o <<OP_ENDIF>>
              \o PushData(all[Len(all)])
       ELSE PushAll(all)

ScriptOf(sd) ==
    (IF sd.lead = "op0" THEN <<OP_0>> ELSE <<>>)
      \o <<OP_RETURN>>
      \o (IF sd.lead = "dup" THEN <<OP_DUP>> ELSE <<>>)
      \o ScriptPushes(sd)

\* the scanner variants of a chain: MVC has the push scanner in use and the
\* tokenizer scanner of the first copy of its file
Variants(chain) == IF chain = "mvc" THEN {"pushes", "tokenizer"} ELSE {"tokenizer"}

\* canonical compact-size encoding of a 64-bit value
TopDigit(v) == IF \E i \in 1..8 : v[i] # 0
               THEN CHOOSE i \in 1..8 : v[i] # 0 /\ \A j \in (i + 1)..8 : v[j] = 0
               ELSE 0

EncodeVarInt(v) ==
    IF TopDigit(v) <= 1 /\ v[1] <= 252 THEN <<v[1]>>
    ELSE IF TopDigit(v) <= 2 THEN <<253, v[1], v[2]>>
    ELSE IF TopDigit(v) <= 4 THEN <<254>> \o SubSeq(v, 1, 4)
    ELSE <<255>> \o v

VarIntValues ==
    {I64Zero,
     <<1, 0, 0, 0, 0, 0, 0, 0>>,
     <<252, 0, 0, 0, 0, 0, 0, 0>>,
     <<253, 0, 0, 0, 0, 0, 0, 0>>,
     <<255, 255, 0, 0, 0, 0, 0, 0>>,
     <<0, 0, 1, 0, 0, 0, 0, 0>>,
     <<255, 255, 255, 255, 0, 0, 0, 0>>,
     <<0, 0, 0, 0, 1, 0, 0, 0>>,
     <<255, 255, 255, 255, 255, 255, 255, 127>>,
     <<0, 0, 0, 0, 0, 0, 0, 128>>}

Trails == SeqsUpTo({0, 255}, MaxTrail)

\* the buffers of decodeVarInt: canonical encodings with trailing bytes,
\* their proper prefixes, and over-long encodings of 1
VarIntInputs ==
    {[buf |-> EncodeVarInt(v) \o t, src |-> [kind |-> "canonical", v |-> v, trail |-> t]] :
        v \in VarIntValues, t \in Trails}
      \cup UNION {{[buf |-> SubSeq(EncodeVarInt(v), 1, n), src |-> [kind |-> "short"]] :
                      n \in 0..(Len(EncodeVarInt(v)) - 1)} : v \in VarIntValues}
      \cup {[buf |-> b, src |-> [kind |-> "overlong"]] :
              b \in {<<253, 1, 0>>, <<254, 1, 0, 0, 0>>, <<255, 1, 0, 0, 0, 0, 0, 0, 0>>}}

-----------------------------------------------------------------------------
(* The state machine: a caller that constructs parsers and makes one call   *)
(* at a time; call is the operation in progress with its arguments, ret     *)
(* what it returned                                                         *)

Idle == [op |-> "idle"]

\* no ParseTransaction call recorded on the parser in use
NoSeen == [recorded |-> FALSE]

\* the ParseTransaction calls counted after the recorded one
MaxLater == 2

\* the transactions whose first parse on a parser, with nil network
\* parameters, is recorded
Recorded == {BaseDesc, Desc(V2, <<"inline", "wit">>, <<"addr">>)}

Init ==
    /\ parser = NewBTCParser(NilConfig)
    /\ call = [op |-> "NewBTCParser", config |-> NilConfig]
    /\ ret = NewBTCParser(NilConfig)
    /\ seen = NoSeen

\* the caller takes the result
Return ==
    /\ call.op # "idle"
    /\ call' = Idle
    /\ ret' = <<>>
    /\ UNCHANGED <<parser, seen>>

Call_NewBTCParser ==
    /\ call.op = "idle"
    /\ \E config \in Configs :
         /\ parser' = NewBTCParser(config)
         /\ call' = [op |-> "NewBTCParser", config |-> config]
         /\ ret' = NewBTCParser(config)
    /\ seen' = NoSeen

Call_NewMVCParser ==
    /\ call.op = "idle"
    /\ \E config \in Configs :
         /\ parser' = NewMVCParser(config)
         /\ call' = [op |-> "NewMVCParser", config |-> config]
         /\ ret' = NewMVCParser(config)
    /\ seen' = NoSeen

Call_NewDOGEParser ==
    /\ call.op = "idle"
    /\ \E config \in Configs :
         /\ parser' = NewDOGEParser(config)
         /\ call' = [op |-> "NewDOGEParser", config |-> config]
         /\ ret' = NewDOGEParser(config)
    /\ seen' = NoSeen

Call_NewConfigWithProtocol ==
    /\ call.op = "idle"
    /\ \E protocolID \in {<<>>, DefaultProtocolID, CustomProtocolID} :
         /\ call' = [op |-> "NewConfigWithProtocol", protocolID |-> protocolID]
         /\ ret' = NewConfigWithProtocol(protocolID)
    /\ UNCHANGED <<parser, seen>>

Call_ParseTransaction ==
    /\ call.op = "idle"
    /\ \E in \in TxInputs(parser) :
         /\ call' = [op |-> "ParseTransaction", txBytes |-> in.txBytes,
                     chainParams |-> in.chainParams, src |-> in.src]
         /\ ret' = ParseTransaction(parser, in.txBytes, in.chainParams)
         /\ seen' = IF /\ ~seen.recorded
                       /\ in.src.kind = "tx" /\ in.src.desc \in Recorded
                       /\ in.chainParams = P_nil
                       /\ in.txBytes = TxBytes(parser.chain, TxOf(in.src.desc))
                    THEN [recorded |-> TRUE, parser |-> parser, txBytes |-> in.txBytes,
                          chainParams |-> in.chainParams,
                          ret |-> ParseTransaction(parser, in.txBytes, in.chainParams),
                          later |-> 0]
                    ELSE IF seen.recorded
                      THEN [seen EXCEPT !.later = IF @ < MaxLater THEN @ + 1 ELSE @]
                    ELSE seen
    /\ UNCHANGED parser

\* parseOpReturnScript of the BTC and MVC parsers
parseOpReturnScript(p, variant, pkScript) ==
    IF p.chain = "btc" THEN BTC_parseOpReturnScript(p, pkScript)
    ELSE IF variant = "pushes" THEN MVC_parseOpReturnScript(p, pkScript)
    ELSE MVC_parseOpReturnScriptTok(p, pkScript)

Call_parseOpReturnScript ==
    /\ call.op = "idle"
    /\ parser.chain \in {"btc", "mvc"}
    /\ \E sd \in ScriptDescs, variant \in Variants(parser.chain) :
         /\ call' = [op |-> "parseOpReturnScript", variant |-> variant,
                     pkScript |-> ScriptOf(sd), src |-> sd]
         /\ ret' = parseOpReturnScript(parser, variant, ScriptOf(sd))
    /\ UNCHANGED <<parser, seen>>

\* parseOnePin of the three parsers, on the fields that follow the marker
parseOnePin(p, variant, enc, fields) ==
    LET tk == MakeScriptTokenizer(PushAllAs(enc, fields))
    IN IF p.chain = "btc" THEN BTC_parseOnePin(tk, 1)
       ELSE IF p.chain = "doge" THEN DOGE_parseOnePin(FieldsOf(tk.toks))
       ELSE IF variant = "pushes"
         THEN MVC_parseOnePin(PushFields(extractDataPushes(PushAllAs(enc, fields)).pushes))
       ELSE MVC_parseOnePinTok(tk, 1)

Call_parseOnePin ==
    /\ call.op = "idle"
    /\ \E fields \in StdFieldLists, variant \in Variants(parser.chain),
          enc \in PushEncodings :
         /\ call' = [op |-> "parseOnePin", variant |-> variant, enc |-> enc,
                     fields |-> fields]
         /\ ret' = parseOnePin(parser, variant, enc, fields)
    /\ UNCHANGED <<parser, seen>>

Call_parsePinFromDirectScriptSig ==
    /\ call.op = "idle"
    /\ parser.chain = "doge"
    /\ \E marker \in {S_metaid, S_testid}, fields \in InlineFieldLists :
         /\ call' = [op |-> "parsePinFromDirectScriptSig",
                     scriptSig |-> InlineScriptSig(marker, fields),
                     marker |-> marker, fields |-> fields]
         /\ ret' = DOGE_parsePinFromDirectScriptSig(parser, InlineScriptSig(marker, fields))
    /\ UNCHANGED <<parser, seen>>

\* the envelope scripts handed to the witness and redeem-script scanners
EnvelopeDescs ==
    {ScriptDesc("", marker, fields) :
        marker \in {S_metaid, S_testid}, fields \in ScanFieldLists}

\* the witness scripts: the envelope scripts, and the same behind an OP_0
\* that no OP_IF follows
WitnessDescs ==
    EnvelopeDescs
      \cup {ScriptDesc("op0", marker, FieldList(S_create, 7)) : marker \in {S_metaid, S_testid}}

WitnessScriptOf(sd) ==
    (IF sd.lead = "op0" THEN <<OP_0>> ELSE <<>>) \o WitnessScript(sd.marker, sd.fields)

Call_parseWitnessScript ==
    /\ call.op = "idle"
    /\ parser.chain = "btc"
    /\ \E sd \in WitnessDescs :
         /\ call' = [op |-> "parseWitnessScript",
                     witnessScript |-> WitnessScriptOf(sd), src |-> sd]
         /\ ret' = BTC_parseWitnessScript(parser, WitnessScriptOf(sd))
    /\ UNCHANGED <<parser, seen>>

Call_parsePinFromRedeemScript ==
    /\ call.op = "idle"
    /\ parser.chain = "doge"
    /\ \E sd \in EnvelopeDescs :
         /\ call' = [op |-> "parsePinFromRedeemScript",
                     redeemScript |-> RedeemScript(sd.marker, sd.fields), src |-> sd]
         /\ ret' = DOGE_parsePinFromRedeemScript(parser, RedeemScript(sd.marker, sd.fields))
    /\ UNCHANGED <<parser, seen>>

Call_decodeVarInt ==
    /\ call.op = "idle"
    /\ \E in \in VarIntInputs :
         /\ call' = [op |-> "decodeVarInt", buf |-> in.buf, src |-> in.src]
         /\ ret' = decodeVarInt(in.buf)
    /\ UNCHANGED <<parser, seen>>

\* the buffers handed to decodeRawTransaction, each of a capacity equal to
\* its length: the serialization of a transaction of one input and one
\* output, every proper prefix of it, the prefixes that end before a count
\* or a script length followed by the first two bytes of a three-byte
\* compact size, the serialization with trailing bytes, the serialization
\* with a count or a script length replaced by the compact size of 2^63, and
\* the serializations without inputs, without outputs, with an empty
\* lockScript
RawDesc == Desc(V2, <<"plain">>, <<"addr">>)
RawBase == Serialize(TxOf(RawDesc))

\* offsets of the input count, the scriptSig length, the output count and
\* the lockScript length in RawBase
PrefixOffsets ==
    LET sigLen == Len(InScriptSig("plain"))
    IN {4, 41, 41 + 1 + sigLen + 4, 41 + 1 + sigLen + 4 + 1 + 8}

RawInput(txBytes, src) == [txBytes |-> txBytes, src |-> src]

\* the nine-byte compact size of 2^63: the most significant byte is 0x80
TopBitVarInt == <<255, 0, 0, 0, 0, 0, 0, 0, 128>>

RawInputs ==
    {RawInput(RawBase, [kind |-> "whole"])}
      \cup {RawInput(Slice(RawBase, 0, n), [kind |-> "cut", n |-> n]) :
              n \in 0..(Len(RawBase) - 1)}
      \cup {RawInput(Slice(RawBase, 0, n) \o <<253, 1>>, [kind |-> "prefix", n |-> n]) :
              n \in PrefixOffsets}
      \cup {RawInput(RawBase \o Repeat(0, n), [kind |-> "trail", n |-> n]) :
              n \in 1..MaxTrail}
      \cup {RawInput(Slice(RawBase, 0, n) \o TopBitVarInt
                       \o Slice(RawBase, n + 1, Len(RawBase)),
                     [kind |-> "topbit", n |-> n]) : n \in PrefixOffsets}
      \cup {RawInput(Serialize(TxOf(d)), [kind |-> "refused", desc |-> d]) :
              d \in {Desc(V2, <<>>, <<"addr">>), Desc(V2, <<"plain">>, <<>>),
                     Desc(V2, <<"plain">>, <<"empty">>)}}

Call_decodeRawTransaction ==
    /\ call.op = "idle"
    /\ parser.chain = "mvc"
    /\ \E in \in RawInputs :
         /\ call' = [op |-> "decodeRawTransaction", txBytes |-> in.txBytes, src |-> in.src]
         /\ ret' = decodeRawTransaction(in.txBytes)
    /\ UNCHANGED <<parser, seen>>

\* the script buffers handed to extractDataPushes: every buffer of up to
\* MaxScript bytes over a direct push of 0 and of 2 bytes, the three
\* PUSHDATA opcodes and OP_RETURN, and longer buffers around a complete and
\* a truncated PUSHDATA2 and PUSHDATA4
MaxScript == 3
ScriptBytes == {OP_0, 2, OP_PUSHDATA1, OP_PUSHDATA2, OP_PUSHDATA4, OP_RETURN}

PushScripts ==
    SeqsUpTo(ScriptBytes, MaxScript)
      \cup {<<OP_PUSHDATA2, 2, 0, 7, 8>>, <<OP_PUSHDATA2, 2, 0, 7>>,
            <<OP_PUSHDATA2, 0, 1, 7, 8>>, <<OP_RETURN, OP_PUSHDATA2, 1, 0, 7, 1, 9>>,
            <<OP_PUSHDATA4, 1, 0, 0, 0, 7>>, <<OP_PUSHDATA4, 1, 0, 0, 0>>,
            <<OP_PUSHDATA4, 0, 0, 0, 0>>, <<OP_PUSHDATA4, 2, 0, 0>>,
            <<OP_PUSHDATA4, 1, 0, 0, 1, 7>>, <<OP_PUSHDATA4, 2, 0, 0, 0, 7, 8, OP_ENDIF, 1, 9>>,
            <<OP_PUSHDATA1, 3, 7, 8, 9, OP_0>>, <<OP_PUSHDATA1, 3, 7, 8>>}

Call_extractDataPushes ==
    /\ call.op = "idle"
    /\ parser.chain = "mvc"
    /\ \E script \in PushScripts :
         /\ call' = [op |-> "extractDataPushes", script |-> script]
         /\ ret' = extractDataPushes(script)
    /\ UNCHANGED <<parser, seen>>

Call_calculateTxHash ==
    /\ call.op = "idle"
    /\ parser.chain = "mvc"
    /\ \E d \in Descs :
         /\ call' = [op |-> "calculateTxHash", msgTx |-> TxOf(d), src |-> d]
         /\ ret' = calculateTxHash(TxOf(d), Serialize(TxOf(d)))
    /\ UNCHANGED <<parser, seen>>

Next ==
    \/ Return
    \/ Call_NewBTCParser
    \/ Call_NewMVCParser
    \/ Call_NewDOGEParser
    \/ Call_NewConfigWithProtocol
    \/ Call_ParseTransaction
    \/ Call_parseOpReturnScript
    \/ Call_parseOnePin
    \/ Call_parsePinFromDirectScriptSig
    \/ Call_parseWitnessScript
    \/ Call_parsePinFromRedeemScript
    \/ Call_decodeVarInt
    \/ Call_decodeRawTransaction
    \/ Call_extractDataPushes
    \/ Call_calculateTxHash

Spec == Init /\ [][Next]_vars

-----------------------------------------------------------------------------
(* Properties                                                              *)

IsParse == call.op = "ParseTransaction"

\* the transaction ParseTransaction was called on, as its own deserializer
\* reads the bytes
Deserialized == Deserialize(call.txBytes, parser.chain # "mvc")

\* C1: for every chain parser, ParseTransaction on bytes that the
\* transaction deserializer rejects (the empty sequence, a 3-byte sequence,
\* every truncation of a transaction, a non-canonical count) returns a
\* non-nil error and no PINs.
C1_RejectedBytesFail ==
    IsParse =>
      /\ Deserialized.err => ret.err # "" /\ ret.pins = <<>>
      /\ call.src.kind # "tx" => Deserialized.err /\ ret.err # "" /\ ret.pins = <<>>
      /\ Len(call.txBytes) \in {0, 3} => ret.err # "" /\ ret.pins = <<>>

C1_Witness ==
    /\ IsParse
    /\ parser.chain = "doge"
    /\ call.txBytes = <<1, 2, 3>>
    /\ call.chainParams = P_nil
    /\ ret = Result(<<>>, E_deserialize)

\* C6: a parser constructed with a nil configuration uses the default
\* protocol marker, hex "6d6574616964", the ASCII string "metaid"; one
\* constructed with a non-nil configuration keeps that configuration's
\* ProtocolID unchanged; NewConfigWithProtocol("") yields the default marker.
C6_DefaultMarker ==
    /\ HexEncodeToString(S_metaid) = DefaultProtocolID
    /\ HexDecodeString(DefaultProtocolID) = S_metaid
    /\ call.op \in {"NewBTCParser", "NewMVCParser", "NewDOGEParser"} =>
         /\ parser = ret
         /\ call.config.nil => ret.config.ProtocolID = DefaultProtocolID
         /\ ~call.config.nil => ret.config.ProtocolID = call.config.ProtocolID
    /\ call.op = "NewConfigWithProtocol" =>
         /\ call.protocolID = <<>> => ret.ProtocolID = DefaultProtocolID
         /\ call.protocolID # <<>> => ret.ProtocolID = call.protocolID

C6_Witness ==
    /\ call.op = "NewMVCParser"
    /\ call.config.nil
    /\ ret.config.ProtocolID = DefaultProtocolID
    /\ parser.chain = "mvc"

\* the compact-size encodings of the boundary values, written out
C9_Table ==
    {[v |-> I64Zero, enc |-> <<0>>],
     [v |-> <<252, 0, 0, 0, 0, 0, 0, 0>>, enc |-> <<252>>],
     [v |-> <<253, 0, 0, 0, 0, 0, 0, 0>>, enc |-> <<253, 253, 0>>],
     [v |-> <<255, 255, 0, 0, 0, 0, 0, 0>>, enc |-> <<253, 255, 255>>],
     [v |-> <<0, 0, 1, 0, 0, 0, 0, 0>>, enc |-> <<254, 0, 0, 1, 0>>],
     [v |-> <<255, 255, 255, 255, 0, 0, 0, 0>>, enc |-> <<254, 255, 255, 255, 255>>],
     [v |-> <<0, 0, 0, 0, 1, 0, 0, 0>>, enc |-> <<255, 0, 0, 0, 0, 1, 0, 0, 0>>]}

\* C9: for each v in {0, 0xfc, 0xfd, 0xffff, 0x10000, 0xffffffff,
\* 0x100000000}, decodeVarInt on the canonical encoding of v returns v and
\* the length of the encoding (1, 3, 5 or 9), whatever bytes follow it.
C9_VarIntRoundTrip ==
    call.op = "decodeVarInt" /\ call.src.kind = "canonical" =>
      \A e \in C9_Table :
        call.src.v = e.v =>
          /\ call.buf = e.enc \o call.src.trail
          /\ ret = <<e.v, Len(e.enc)>>
          /\ ret[2] \in {1, 3, 5, 9}

C9_Witness ==
    /\ call.op = "decodeVarInt"
    /\ call.buf = <<255, 0, 0, 0, 0, 1, 0, 0, 0, 255, 0>>
    /\ ret = <<<<0, 0, 0, 0, 1, 0, 0, 0>>, 9>>

\* the first push equals the marker the parser is configured with
Matches(p, marker) == HexEncodeToString(marker) = p.config.ProtocolID

IsParseOfTx ==
    /\ IsParse
    /\ call.src.kind = "tx"
    /\ call.chainParams # P_other
    /\ ~Deserialized.err

MatchingOuts(p, desc) ==
    {k \in 1..Len(desc.outs) : IsEnvKind(desc.outs[k]) /\ Matches(p, EnvMarker(desc.outs[k]))}

\* an input or output of the described transaction carries an envelope
\* that the parser's chain scans for and that bears its marker
CarriesEnvelope(p, desc) ==
    IF p.chain = "doge"
      THEN \E k \in 1..Len(desc.ins) : desc.ins[k] \in {"inline", "redeem", "both"}
    ELSE \/ MatchingOuts(p, desc) # {}
         \/ p.chain = "btc" /\ Matches(p, S_metaid)
              /\ \E k \in 1..Len(desc.ins) : desc.ins[k] \in {"wit"} \cup StackInKinds

\* what decodeRawTransaction refuses in a deserialized transaction
MVC_Refuses(desc) ==
    \/ Len(desc.ins) = 0
    \/ Len(desc.outs) = 0
    \/ \E k \in 1..Len(desc.outs) : desc.outs[k] = "empty"

\* C2 as stated: for every parser and every deserializable transaction
\* without a matching envelope, ParseTransaction returns a nil error and an
\* empty PIN list, on MVC too whatever the input count, the output count
\* and the locking-script lengths.
C2_AsStated ==
    IsParseOfTx /\ ~CarriesEnvelope(parser, call.src.desc) => ret = Result(<<>>, "")

\* C2: for every parser and every deserializable transaction without a
\* matching envelope, ParseTransaction returns a nil error and an empty PIN
\* list, except that on MVC a transaction with no input, no output or an
\* empty locking script makes it fail with the identifier error and no PINs.
C2_NoEnvelopeNoPins ==
    IsParseOfTx /\ ~CarriesEnvelope(parser, call.src.desc) =>
      IF parser.chain = "mvc" /\ MVC_Refuses(call.src.desc)
      THEN ret = Result(<<>>, E_txhash)
      ELSE ret = Result(<<>>, "")

C2_Witness ==
    /\ IsParseOfTx
    /\ parser.chain = "mvc"
    /\ call.src.desc.outs = <<"addr", "empty">>
    /\ ~CarriesEnvelope(parser, call.src.desc)
    /\ ret = Result(<<>>, E_txhash)

\* the addresses of the address-bearing outputs of the described transaction
AddressOuts(desc) == {k \in 1..Len(desc.outs) : desc.outs[k] \in {"addr", "p2sh"}}

Min(S) == CHOOSE k \in S : \A j \in S : k <= j

\* C3 as stated: a transaction with one input and one output, the output
\* script being OP_RETURN <marker> "create" "/protocols/simplebuzz" "0"
\* "1.0" "text/plain" "hello", parsed by the BTC or the MVC parser yields
\* exactly one PIN with these fields, owned by the address of that output.
C3_AsStated ==
    /\ IsParseOfTx
    /\ parser.chain \in {"btc", "mvc"}
    /\ Matches(parser, S_metaid)
    /\ call.src.desc.ins = <<"plain">>
    /\ call.src.desc.outs = <<"envA">>
    => /\ Len(ret.pins) = 1
       /\ ret.pins[1].Operation = S_create
       /\ ret.pins[1].Path = S_simplebuzz
       /\ ret.pins[1].ParentPath = S_protocols
       /\ ret.pins[1].ContentType = S_textplain
       /\ ret.pins[1].ContentBody = S_hello
       /\ ret.pins[1].OwnerAddress # <<>>

\* C4 as stated: on MVC and on the OP_RETURN path of BTC, a transaction
\* with an output carrying a valid envelope and an address-bearing output
\* yields exactly one PIN, decoded from the lowest-index matching output.
C4_AsStated ==
    /\ IsParseOfTx
    /\ parser.chain \in {"btc", "mvc"}
    /\ MatchingOuts(parser, call.src.desc) # {}
    /\ AddressOuts(call.src.desc) # {}
    => /\ Len(ret.pins) = 1
       /\ ret.pins[1].InscriptionTxIndex = Min(MatchingOuts(parser, call.src.desc)) - 1

\* C4: the same, for the transactions whose identifier the parser can
\* compute: on MVC those with an input and without an empty locking script.
\* The PIN carries the fields of the lowest-index matching output and the
\* address of the lowest-index address-bearing output; later matching
\* outputs yield nothing.
C4_FirstMatchingOutput ==
    /\ IsParseOfTx
    /\ parser.chain \in {"btc", "mvc"}
    /\ MatchingOuts(parser, call.src.desc) # {}
    /\ AddressOuts(call.src.desc) # {}
    /\ parser.chain = "mvc" => ~MVC_Refuses(call.src.desc)
    => LET first == Min(MatchingOuts(parser, call.src.desc))
           owner == Min(AddressOuts(call.src.desc))
       IN /\ ret.err = ""
          /\ Len(ret.pins) = 1
          /\ ret.pins[1].InscriptionTxIndex = first - 1
          /\ ret.pins[1].Operation = EnvFields(call.src.desc.outs[first])[1]
          /\ SubSeq(ret.pins[1].OwnerAddress, 2, 21) = Repeat(owner, 20)

C4_Witness ==
    /\ IsParseOfTx
    /\ parser.chain = "mvc"
    /\ call.src.desc.outs = <<"addr", "envB", "envA">>
    /\ Len(ret.pins) = 1
    /\ ret.pins[1].InscriptionTxIndex = 1
    /\ ret.pins[1].Operation = S_revoke

\* C5 as stated: in the OP_RETURN scanners of BTC and MVC, a script whose
\* first data push after OP_RETURN differs from the configured protocol
\* marker never yields a PIN, whatever fields follow.
C5_AsStated ==
    /\ call.op = "parseOpReturnScript"
    /\ call.src.marker # HexDecodeString(parser.config.ProtocolID)
    => ret = NilPin

\* every field is within the 520-byte limit of the collecting loops
WithinLimit(fields) == \A k \in 1..Len(fields) : Len(fields[k]) <= MaxFieldSize

\* C7: arity boundary of the field decoders.  Standard layout (the fields
\* after the marker, in every parser): "revoke" yields a PIN with 5 fields
\* and none with 4, "create" and "modify" yield a PIN with 6 fields and none
\* with 5.  Inline layout of DOGE (fields counted after the marker):
\* "revoke" needs at least 5 fields, "create" and "modify" at least 6.
C7_ArityBoundary ==
    /\ call.op = "parseOnePin" /\ Len(call.fields) >= 1 /\ WithinLimit(call.fields) =>
         /\ call.fields[1] = S_revoke => (ret # NilPin <=> Len(call.fields) >= 5)
         /\ call.fields[1] \in {S_create, S_modify} =>
              (ret # NilPin <=> Len(call.fields) >= 6)
    /\ call.op = "parsePinFromDirectScriptSig" /\ Len(call.fields) >= 1
         /\ Matches(parser, call.marker) =>
         /\ call.fields[1] = S_revoke => (ret # NilPin <=> Len(call.fields) >= 5)
         /\ call.fields[1] \in {S_create, S_modify} =>
              (ret # NilPin <=> Len(call.fields) >= 6)

C7_Witness ==
    /\ call.op = "parsePinFromDirectScriptSig"
    /\ call.fields = InlineList(S_revoke, 5)
    /\ ret # NilPin
    /\ ret[1].Operation = S_revoke

\* the fields of a list from position i (1-based) on, joined in order
JoinFrom(fields, i) == Concat(SubSeq(fields, i, Len(fields)))

SignatureLike(f) == Len(f) \in 70..73 /\ f[1] = 48

PubKeyLike(f) == Len(f) \in {33, 65} /\ f[1] \in {2, 3, 4}

\* the inline content: the fields from position i up to the first one
\* shaped like a signature or a public key
InlineStop(fields, i) ==
    LET stops == {k \in i..Len(fields) : SignatureLike(fields[k]) \/ PubKeyLike(fields[k])}
    IN IF stops = {} THEN Len(fields) + 1 ELSE Min(stops)

InlineContent(fields, i) == Concat(SubSeq(fields, i, InlineStop(fields, i) - 1))

\* the fields of the envelope a PIN of ParseTransaction was decoded from,
\* marker first in the inline layout
CarrierFields(chain, desc, pin) ==
    LET k == pin.InscriptionTxIndex + 1
    IN IF chain = "mvc" \/ (chain = "btc" /\ pin.Id = <<>>) THEN EnvFields(desc.outs[k])
       ELSE IF desc.ins[k] \in {"wit", "witInAnnex"} THEN FieldList(S_create, 7)
       ELSE IF desc.ins[k] = "redeem" THEN FieldList(S_modify, 7)
       ELSE IF desc.ins[k] = "both"
         THEN <<S_metaid>> \o InlineList(S_create, 7)
                \o <<RedeemScript(S_metaid, FieldList(S_modify, 7))>>
       ELSE <<S_metaid>> \o InlineList(S_create, 7) \o <<Sig71, PubKey33>>

ExpectedContent(chain, desc, pin) ==
    LET fields == CarrierFields(chain, desc, pin)
    IN IF chain = "doge" /\ desc.ins[pin.InscriptionTxIndex + 1] \in {"inline", "both"}
       THEN InlineContent(fields, 7)
       ELSE JoinFrom(fields, 6)

\* C8 as stated: for every PIN returned by any parser, ContentBody is the
\* in-order concatenation of the fields after the fixed header (standard
\* layout: from index 5 on; inline layout: from index 6 on, up to the first
\* field shaped like a signature or a public key) and ContentLength is its
\* length.
C8_AsStated ==
    /\ call.op = "parseOnePin" /\ ret # NilPin =>
         /\ ret[1].ContentBody = JoinFrom(call.fields, 6)
         /\ ret[1].ContentLength = Len(ret[1].ContentBody)
    /\ call.op = "parsePinFromDirectScriptSig" /\ ret # NilPin =>
         /\ ret[1].ContentBody = InlineContent(<<call.marker>> \o call.fields, 7)
         /\ ret[1].ContentLength = Len(ret[1].ContentBody)
    /\ IsParseOfTx =>
         \A i \in 1..Len(ret.pins) :
           /\ ret.pins[i].ContentBody =
                ExpectedContent(parser.chain, call.src.desc, ret.pins[i])
           /\ ret.pins[i].ContentLength = Len(ret.pins[i].ContentBody)

\* the non-empty fields of a list, in order
NonEmpty(fields) == SelectSeq(fields, LAMBDA f : f # <<>>)

\* C8: what the decoders compute.  The same for every PIN but the "init"
\* PIN of the DOGE redeem-script decoder, whose ContentBody is empty and
\* ContentLength 0 whatever fields follow the operation; and in the inline
\* layout the positions count the non-empty pushes only, an empty push
\* before the content shifting every later field by one.
C8_ContentBody ==
    /\ call.op = "parseOnePin" /\ ret # NilPin =>
         /\ ret[1].ContentBody =
              IF parser.chain = "doge" /\ ret[1].Operation = S_init THEN <<>>
              ELSE JoinFrom(call.fields, 6)
         /\ ret[1].ContentLength = Len(ret[1].ContentBody)
    /\ call.op = "parsePinFromDirectScriptSig" /\ ret # NilPin =>
         /\ ret[1].ContentBody =
              InlineContent(NonEmpty(<<call.marker>> \o call.fields), 7)
         /\ ret[1].ContentLength = Len(ret[1].ContentBody)
    /\ IsParseOfTx =>
         \A i \in 1..Len(ret.pins) :
           /\ ret.pins[i].ContentBody =
                ExpectedContent(parser.chain, call.src.desc, ret.pins[i])
           /\ ret.pins[i].ContentLength = Len(ret.pins[i].ContentBody)

C8_Witness ==
    /\ call.op = "parsePinFromDirectScriptSig"
    /\ call.fields = InlineList(S_modify, 6) \o <<Sig71, S_lo, PubKey33>>
    /\ ret # NilPin
    /\ ret[1].ContentBody = S_hel
    /\ ret[1].ContentLength = 3

\* the version, four little-endian bytes, read as an unsigned integer is below 10
UnsignedBelow10(version) ==
    version[4] = 0 /\ version[3] = 0 /\ version[1] + 256 * version[2] < 10

\* hex of the byte-reversed double SHA-256 of a chunk list
ReversedDoubleHashHex(chunks) ==
    [t |-> "hex",
     v |-> [t |-> "reversed", v |-> [t |-> "h", v |-> [t |-> "h", v |-> chunks]]]]

Sha(chunks) == [t |-> "h", v |-> chunks]

LE32(n) == <<n % 256, (n \div 256) % 256, 0, 0>>

\* the identifier over the full serialized bytes
LegacyId(tx) == ReversedDoubleHashHex(<<Bytes(Serialize(tx))>>)

\* the identifier over version, lock time, the two counts and the three digests
MerkleId(tx) ==
    ReversedDoubleHashHex(
      << Bytes(tx.Version), Bytes(tx.LockTime),
         Bytes(LE32(Len(tx.TxIn))), Bytes(LE32(Len(tx.TxOut))),
         Sha(<<Bytes(Concat([i \in 1..Len(tx.TxIn) |->
                 tx.TxIn[i].Hash \o tx.TxIn[i].Index \o tx.TxIn[i].Sequence]))>>),
         Sha([i \in 1..Len(tx.TxIn) |-> Sha(<<Bytes(tx.TxIn[i].SignatureScript)>>)]),
         Sha(Concat([i \in 1..Len(tx.TxOut) |->
                 <<Bytes(tx.TxOut[i].Value), Sha(<<Bytes(tx.TxOut[i].PkScript)>>)>>])) >>)

ExpectedId(tx) == IF UnsignedBelow10(tx.Version) THEN LegacyId(tx) ELSE MerkleId(tx)

\* C10: the MVC identifier of a transaction whose version, read as an
\* unsigned little-endian integer, is below 10 is the reversed-hex double
\* SHA-256 of its full serialized bytes; from version 10 on it is the
\* reversed-hex double SHA-256 of version, lock time, LE32(input count),
\* LE32(output count), SHA256(inputs' prev-txid, prev-index, sequence),
\* SHA256(inputs' SHA256(scriptSig)), SHA256(outputs' amount,
\* SHA256(lockScript)).  A PIN's TxID is that identifier, and the two
\* identifiers of a transaction differ (SHA-256 being taken as injective:
\* the digests of two different preimages are different).
C10_IdentifierBranch ==
    /\ call.op = "calculateTxHash" /\ ret.st = "ok" =>
         /\ ret.hash = ExpectedId(call.msgTx)
         /\ LegacyId(call.msgTx) # MerkleId(call.msgTx)
    /\ IsParseOfTx /\ parser.chain = "mvc" =>
         \A i \in 1..Len(ret.pins) :
           /\ ret.pins[i].TxID = ExpectedId(TxOf(call.src.desc))
           /\ ret.pins[i].TxID = ExpectedId(Deserialized.tx)

C10_Witness ==
    /\ IsParseOfTx
    /\ parser.chain = "mvc"
    /\ call.src.desc.version = <<0, 1, 0, 0>>
    /\ Len(ret.pins) = 1
    /\ ret.pins[1].TxID = MerkleId(TxOf(call.src.desc))
    /\ ret.pins[1].TxID # LegacyId(TxOf(call.src.desc))

WitnessIns(desc) == {k \in 1..Len(desc.ins) : desc.ins[k] \in {"wit", "witInAnnex"}}

\* C12: BTC ParseTransaction scans the OP_RETURN outputs before the witness
\* stacks.  When the OP_RETURN scan yields a PIN the witness scan is not
\* made: the result is that PIN alone (it bears no Id, which every witness
\* PIN bears), even when an input's witness carries a valid envelope.  When
\* the OP_RETURN scan yields none, every witness envelope is returned.
C12_OpReturnBeforeWitness ==
    IsParseOfTx /\ parser.chain = "btc" /\ Matches(parser, S_metaid) =>
      LET desc == call.src.desc
          found == MatchingOuts(parser, desc) # {} /\ AddressOuts(desc) # {}
      IN /\ found =>
              /\ Len(ret.pins) = 1
              /\ ret.pins[1].Id = <<>>
              /\ ret.pins[1].InscriptionTxIndex = Min(MatchingOuts(parser, desc)) - 1
              /\ ret.pins[1].Operation =
                   EnvFields(desc.outs[Min(MatchingOuts(parser, desc))])[1]
         /\ ~found =>
              /\ Len(ret.pins) = Cardinality(WitnessIns(desc))
              /\ \A i \in 1..Len(ret.pins) :
                   /\ ret.pins[i].Id # <<>>
                   /\ ret.pins[i].InscriptionTxIndex + 1 \in WitnessIns(desc)

C12_Witness ==
    /\ IsParseOfTx /\ parser.chain = "btc"
    /\ call.src.desc.ins = <<"plain", "wit">>
    /\ call.src.desc.outs = <<"envA", "addr">>
    /\ Len(ret.pins) = 1
    /\ ret.pins[1].Id = <<>>
    /\ ret.pins[1].InscriptionTxIndex = 0

\* C13 as stated: the field decoder of every chain yields no PIN when the
\* first field, lowercased, is not a recognized operation (create, modify,
\* revoke as ValidateOperation accepts them, plus init), whatever the number
\* of fields.
C13_AsStated ==
    /\ call.op = "parseOnePin" /\ Len(call.fields) >= 1
         /\ ~ValidateOperation(call.fields[1]) /\ ToLower(call.fields[1]) # S_init
         => ret = NilPin
    /\ call.op = "parsePinFromDirectScriptSig" /\ Len(call.fields) >= 1
         /\ ~ValidateOperation(call.fields[1]) /\ ToLower(call.fields[1]) # S_init
         => ret = NilPin

\* a call of one of the envelope scanners: the OP_RETURN scanners of BTC
\* and MVC, the witness scanner of BTC, the redeem-script scanner of DOGE
IsScan == call.op \in {"parseOpReturnScript", "parseWitnessScript", "parsePinFromRedeemScript"}

HasLongField(fields) == \E k \in 1..Len(fields) : Len(fields[k]) > MaxFieldSize

\* C14 as stated: for every chain and carrier (BTC OP_RETURN and witness,
\* MVC OP_RETURN, DOGE redeem script) an envelope with a field of 521 bytes
\* or more after the marker yields no PIN.
C14_AsStated == IsScan /\ HasLongField(call.src.fields) => ret = NilPin

\* the PINs the current call returned, in the order returned
ReturnedPins ==
    IF call.op \in {"parseOnePin", "parsePinFromDirectScriptSig", "parseOpReturnScript",
                    "parseWitnessScript", "parsePinFromRedeemScript"}
    THEN ret
    ELSE IF call.op = "ParseTransaction" THEN ret.pins
    ELSE <<>>

\* the indices of the separators of a path
Slashes(path) == {k \in 1..Len(path) : path[k] = S_slash[1]}

Max(S) == CHOOSE m \in S : \A n \in S : n <= m

\* a path without its final segment, empty for a path of fewer than two
\* segments (fewer than two separators)
WithoutLastSegment(path) ==
    IF Cardinality(Slashes(path)) < 2 THEN <<>>
    ELSE SubSeq(path, 1, Max(Slashes(path)) - 1)

\* C15 as stated: every PIN returned by a BTC, MVC or DOGE parser for a
\* create, modify or revoke has ParentPath equal to Path without its final
\* '/'-separated segment, and empty when Path has fewer than two segments.
C15_AsStated ==
    \A i \in 1..Len(ReturnedPins) :
      ReturnedPins[i].Operation \in {S_create, S_modify, S_revoke} =>
        ReturnedPins[i].ParentPath = WithoutLastSegment(ReturnedPins[i].Path)

\* the header fields of the envelope the current call decoded, by role;
\* an absent field reads as empty (standard layout: encryption, version,
\* content type at 3, 4, 5; inline layout: content type, encryption,
\* version at 2, 3, 4)
IsFieldCall == call.op \in {"parseOnePin", "parsePinFromDirectScriptSig"}

HeaderAt(std, inline) ==
    LET k == IF call.op = "parseOnePin" THEN std ELSE inline
    IN IF k <= Len(call.fields) THEN call.fields[k] ELSE <<>>

\* C16 as stated: a returned PIN has Encryption "0" when the encryption
\* field is absent or an empty push in whatever encoding, Version "0" when
\* the version field is absent or empty, ContentType "application/json"
\* when the content-type field is absent or empty and otherwise that field
\* lowercased and trimmed.
C16_AsStated ==
    IsFieldCall /\ ret # NilPin =>
      /\ HeaderAt(3, 3) = <<>> => ret[1].Encryption = S_0
      /\ HeaderAt(4, 4) = <<>> => ret[1].Version = S_0
      /\ ret[1].ContentType = IF HeaderAt(5, 2) = <<>> THEN S_appjson
                              ELSE ToLower(TrimSpace(HeaderAt(5, 2)))

\* C17: every returned PIN's OwnerMetaId is the hex-encoded SHA-256 digest
\* of the bytes of its OwnerAddress, and is empty exactly when OwnerAddress
\* is empty (the empty address is not hashed).
C17_MetaIdOfAddress ==
    \A i \in 1..Len(ReturnedPins) :
      /\ ReturnedPins[i].OwnerAddress # <<>> =>
           ReturnedPins[i].OwnerMetaId = <<"hex", "sha256", ReturnedPins[i].OwnerAddress>>
      /\ ReturnedPins[i].OwnerMetaId = <<>> <=> ReturnedPins[i].OwnerAddress = <<>>

\* a DOGE PIN whose carrying input has no owner output: the address and the
\* identifier are both empty
C17_Witness ==
    /\ IsParseOfTx
    /\ parser.chain = "doge"
    /\ Len(ret.pins) > 0
    /\ ret.pins[1].OwnerAddress = <<>>
    /\ ret.pins[1].OwnerMetaId = <<>>

\* a path in normal form: no upper-case letter, no whitespace at either
\* end, and the separator first
IsNormalPath(path) ==
    /\ \A k \in 1..Len(path) : path[k] \notin 65..90
    /\ path = <<>> \/ (~IsSpace(path[1]) /\ ~IsSpace(path[Len(path)]))
    /\ path # <<>> /\ path[1] = S_slash[1]

\* C18 as stated: every returned PIN has a Path that is lowercase, has no
\* leading or trailing whitespace and begins with '/'; an envelope whose
\* path field does not normalize to a string starting with '/' produces no
\* PIN with a separator-less path.
C18_AsStated == \A i \in 1..Len(ReturnedPins) : IsNormalPath(ReturnedPins[i].Path)

\* the inputs (1-based) that carry a complete envelope the parser's chain
\* scans for and that bears its marker
MatchingIns(p, desc) ==
    {k \in 1..Len(desc.ins) :
        \/ p.chain = "btc" /\ k \in WitnessIns(desc) /\ Matches(p, S_metaid)
        \/ p.chain = "doge" /\ desc.ins[k] \in {"inline", "redeem", "both"}}

\* the result is that of the input scan: every DOGE result, and a BTC
\* result without a PIN of the OP_RETURN scan (which bears no Id)
IsInputScan ==
    /\ IsParseOfTx
    /\ \/ parser.chain = "doge"
       \/ parser.chain = "btc" /\ \A i \in 1..Len(ret.pins) : ret.pins[i].Id # <<>>

\* C19: the inputs are scanned independently in index order.  An input
\* whose envelope fails a rule yields no PIN and no error and does not end
\* the scan, every matching input yields exactly one PIN, the list is in
\* strictly increasing InscriptionTxIndex order, and InscriptionTxIndex is
\* the index of the carrying input.
C19_InputScan ==
    IsInputScan =>
      /\ ret.err = ""
      /\ Len(ret.pins) = Cardinality(MatchingIns(parser, call.src.desc))
      /\ \A i \in 1..Len(ret.pins) :
           ret.pins[i].InscriptionTxIndex + 1 \in MatchingIns(parser, call.src.desc)
      /\ \A i, j \in 1..Len(ret.pins) :
           i < j => ret.pins[i].InscriptionTxIndex < ret.pins[j].InscriptionTxIndex

\* a witness envelope too short for its operation in input 0, a complete
\* one in input 1: one PIN, of input 1
C19_Witness ==
    /\ IsInputScan
    /\ parser.chain = "btc"
    /\ call.src.desc.ins = <<"witShort", "wit">>
    /\ Len(ret.pins) = 1
    /\ ret.pins[1].InscriptionTxIndex = 1

\* C20 as stated: decodeRawTransaction returns an error, never a
\* RawTransaction and never a slice out of range, for every structurally
\* inconsistent buffer: a count or script length cut so that decodeVarInt
\* returns (0, 0), a scriptSig or sequence that runs past the end, a
\* truncated output, bytes after the lock time, no inputs, no outputs, an
\* empty lockScript.
C20_AsStated ==
    call.op = "decodeRawTransaction" /\ call.src.kind # "whole" => ret.st = "err"

\* the walk of a script from position i (1-based), by the rule of each
\* opcode: the width of its length prefix, the length it declares (a
\* four-byte length with a non-zero top byte exceeds every buffer), and
\* where its payload ends
PrefixWidth(opcode) ==
    IF opcode = OP_PUSHDATA1 THEN 1
    ELSE IF opcode = OP_PUSHDATA2 THEN 2
    ELSE IF opcode = OP_PUSHDATA4 THEN 4 ELSE 0

PrefixFits(script, i) == i + PrefixWidth(script[i]) <= Len(script)

Oversized(script, i) == script[i] = OP_PUSHDATA4 /\ script[i + 4] # 0

Declared(script, i) ==
    IF script[i] < OP_PUSHDATA1 THEN script[i]
    ELSE IF script[i] = OP_PUSHDATA1 THEN script[i + 1]
    ELSE IF script[i] = OP_PUSHDATA2 THEN script[i + 1] + 256 * script[i + 2]
    ELSE script[i + 1] + 256 * script[i + 2] + 65536 * script[i + 3]

PayloadEnd(script, i) == i + PrefixWidth(script[i]) + Declared(script, i)

PushFits(script, i) ==
    /\ PrefixFits(script, i)
    /\ ~Oversized(script, i)
    /\ PayloadEnd(script, i) <= Len(script)

\* the positions of the opcodes the walk visits, up to the first push that
\* does not fit
RECURSIVE Visited(_, _)
Visited(script, i) ==
    IF i > Len(script) THEN <<>>
    ELSE IF script[i] > OP_PUSHDATA4 THEN <<i>> \o Visited(script, i + 1)
    ELSE IF ~PushFits(script, i) THEN <<i>>
    ELSE <<i>> \o Visited(script, PayloadEnd(script, i) + 1)

IsPushAt(script, i) == script[i] <= OP_PUSHDATA4

Truncated(script) ==
    \E k \in 1..Len(Visited(script, 1)) :
      IsPushAt(script, Visited(script, 1)[k]) /\ ~PushFits(script, Visited(script, 1)[k])

Payload(script, i) ==
    SubSeq(script, i + PrefixWidth(script[i]) + 1, PayloadEnd(script, i))

PushPositions(script) == SelectSeq(Visited(script, 1), LAMBDA i : IsPushAt(script, i))

\* C21: extractDataPushes returns the payloads of the pushes met walking
\* the buffer left to right, in order (opcodes above PUSHDATA4 take one
\* byte and give nothing), or the "script truncated" error and no list
\* exactly when a length prefix or a declared payload runs past the end.
C21_PushWalk ==
    call.op = "extractDataPushes" =>
      IF Truncated(call.script) THEN ret.err /\ ret.pushes = <<>>
      ELSE /\ ~ret.err
           /\ ret.pushes = [k \in 1..Len(PushPositions(call.script)) |->
                              Payload(call.script, PushPositions(call.script)[k])]

\* PUSHDATA4 of two bytes, OP_ENDIF, a direct push of one byte
C21_Witness ==
    /\ call.op = "extractDataPushes"
    /\ call.script = <<OP_PUSHDATA4, 2, 0, 0, 0, 7, 8, OP_ENDIF, 1, 9>>
    /\ ~ret.err
    /\ ret.pushes = <<<<7, 8>>, <<9>>>>

\* the witness item the statement selects: none for a stack of at most one
\* item or a last item of at most one byte, the second-to-last item when
\* the last one is an annex, the last item otherwise
StatedWitnessScript(w) ==
    IF Len(w) <= 1 \/ Len(w[Len(w)]) <= 1 THEN <<>>
    ELSE IF w[Len(w)][1] = TaprootAnnexTag THEN w[Len(w) - 1]
    ELSE w[Len(w)]

\* C22 as stated: BTC scans, for each input, the witness item selected as
\* above: a PIN is returned for the input exactly when that item holds a
\* valid envelope.
C22_AsStated ==
    IsInputScan /\ parser.chain = "btc" /\ Len(call.src.desc.ins) = 1 =>
      LET Scanned(item) ==
            IF item = <<>> THEN NilPin ELSE BTC_parseWitnessScript(parser, item)
      IN Len(ret.pins) = Len(Scanned(StatedWitnessScript(InWitness(call.src.desc.ins[1]))))

\* the token positions at which OP_FALSE, OP_IF and a push of the marker
\* follow one another
EnvelopeStarts(p, toks) ==
    {i \in 1..(Len(toks) - 2) :
        /\ toks[i].op = OP_FALSE
        /\ toks[i + 1].op = OP_IF
        /\ ~toks[i + 2].nil
        /\ HexEncodeToString(toks[i + 2].d) = p.config.ProtocolID}

\* C23 as stated: parseWitnessScript finds OP_FALSE, OP_IF, push(marker) at
\* whatever token position it occurs, an earlier OP_FALSE that no OP_IF
\* follows notwithstanding, and decodes the tokens after the marker up to
\* the first OP_ENDIF; without the sequence it yields no PIN.
C23_AsStated ==
    call.op = "parseWitnessScript" =>
      LET Stated(tk) ==
            IF EnvelopeStarts(parser, tk.toks) = {} THEN NilPin
            ELSE BTC_parseOnePin(tk, Min(EnvelopeStarts(parser, tk.toks)) + 3)
      IN ret = Stated(MakeScriptTokenizer(call.witnessScript))

\* the PIN the statement decodes from a signature script: that of the
\* redeem-script envelope in the last non-empty push when it matches, that
\* of the inline format otherwise
StatedScriptSigPin(p, scriptSig) ==
    LET Tried(redeem) ==
          IF redeem # NilPin THEN redeem
          ELSE DOGE_parsePinFromDirectScriptSig(p, scriptSig)
        Last(pushes) ==
          Tried(IF pushes = <<>> THEN NilPin
                ELSE DOGE_parsePinFromRedeemScript(p, pushes[Len(pushes)]))
    IN Last(NonEmptyData(MakeScriptTokenizer(scriptSig).toks))

\* C24 as stated: for a DOGE input the redeem-script envelope is tried
\* first and the inline format only when it does not match, so a signature
\* script that satisfies both yields the PIN of the redeem script.
C24_AsStated ==
    IsParseOfTx /\ parser.chain = "doge" /\ Len(call.src.desc.ins) = 1
      /\ InScriptSig(call.src.desc.ins[1]) # <<>> =>
      LET Same(stated) ==
            /\ Len(ret.pins) = Len(stated)
            /\ stated # NilPin =>
                 /\ ret.pins[1].Operation = stated[1].Operation
                 /\ ret.pins[1].Path = stated[1].Path
                 /\ ret.pins[1].ContentBody = stated[1].ContentBody
      IN Same(StatedScriptSigPin(parser, InScriptSig(call.src.desc.ins[1])))

\* the composite field of the current call: the path field of the MVC
\* decoder in use, field 5 of the DOGE inline layout
IsCompositeCall ==
    \/ call.op = "parseOnePin" /\ parser.chain = "mvc" /\ call.variant = "pushes"
    \/ call.op = "parsePinFromDirectScriptSig"

CompositeField == IF call.op = "parseOnePin" THEN call.fields[2] ELSE call.fields[5]

\* the part of a composite field from the '/' of its first ":/" on, the
\* whole field without one
PathPart(f) ==
    IF Index(f, <<58, 47>>) < 0 THEN f
    ELSE SubSeq(f, Index(f, <<58, 47>>) + 2, Len(f))

\* C25 as stated: a composite "address:path" field is split at its first
\* ":/", wherever it is (index 0 included) and whatever ':' the left part
\* holds; the PIN's Path is the normalized part from that '/' on, and a
\* field without ":/" is the path whole.
C25_AsStated ==
    IsCompositeCall /\ ret # NilPin /\ (\A k \in 1..5 : call.fields[k] # <<>>) =>
      ret[1].Path = NormalizePath(PathPart(CompositeField))

\* C26 as stated: in every field decoder (BTC, MVC, DOGE redeem-script and
\* inline) a field list whose operation folds to "init" yields a PIN with
\* Path "/", empty ParentPath, Encryption "0", Version "0", ContentType
\* "application/json", empty ContentBody and ContentLength 0, whatever
\* fields follow, none included.
C26_AsStated ==
    IsFieldCall /\ call.fields # <<>> /\ ToLower(call.fields[1]) = S_init =>
      /\ ret # NilPin
      /\ ret[1].Operation = S_init
      /\ ret[1].Path = S_slash
      /\ ret[1].ParentPath = <<>>
      /\ ret[1].Encryption = S_0
      /\ ret[1].Version = S_0
      /\ ret[1].ContentType = S_appjson
      /\ ret[1].ContentBody = <<>>
      /\ ret[1].ContentLength = 0

\* C27 as stated: a PIN of an input-carried envelope (BTC witness, DOGE
\* signature script) is anchored to output 0 in both branches of the
\* resolver: Vout is 0 and, output 0 having an address, OwnerAddress is
\* that address and OutputValue the value of output 0.
C27_AsStated ==
    IsInputScan =>
      \A i \in 1..Len(ret.pins) :
        /\ ret.pins[i].Vout = 0
        /\ call.src.desc.outs # <<>> /\ call.src.desc.outs[1] \in {"addr", "p2sh"} =>
             /\ SubSeq(ret.pins[i].OwnerAddress, 2, 21) = Repeat(1, 20)
             /\ ret.pins[i].OutputValue = OutOf(call.src.desc.outs[1], 1).Value

\* C28 as stated: behind the marker of an OP_RETURN envelope (BTC and MVC)
\* every push up to the end of the script reaches the field decoder; an
\* OP_ENDIF between two pushes cuts nothing off the field list and the
\* content body.
C28_AsStated ==
    call.op = "parseOpReturnScript" /\ call.src.lead = "endif"
      /\ Matches(parser, call.src.marker)
      /\ call.src.fields = FieldList(S_create, 7) =>
        /\ ret # NilPin
        /\ ret[1].ContentBody = call.src.fields[6] \o call.src.fields[7]

\* the compact size decodeRawTransaction reads at offset n of its buffer
CountReadAt(txBytes, n) == decodeVarInt(Slice(txBytes, n, Len(txBytes)))

\* C29 as stated: decodeVarInt returns a non-negative value and a consumed
\* count in {0, 1, 3, 5, 9} that does not exceed the length of the buffer,
\* also for the nine-byte form with a most significant byte of 0x80 or
\* more, so that no count or script length decodeRawTransaction reads is
\* negative.
C29_AsStated ==
    /\ call.op = "decodeVarInt" =>
         /\ ~I64IsNeg(ret[1])
         /\ ret[2] \in {0, 1, 3, 5, 9}
         /\ ret[2] <= Len(call.buf)
    /\ call.op = "decodeRawTransaction" /\ call.src.kind = "topbit" =>
         /\ ~I64IsNeg(CountReadAt(call.txBytes, call.src.n)[1])
         /\ ret.st # "panic"

\* the location fields of a PIN agree with the PIN's TxID and Vout
ConsistentLocation(pin) ==
    /\ pin.Id = IdOf(pin.TxID, pin.Vout)
    /\ pin.Output = OutputOf(pin.TxID, pin.Vout)
    /\ Len(pin.Location) = 5
    /\ SubSeq(pin.Location, 1, 4) = <<pin.TxID, ":", pin.Vout, ":">>
    /\ pin.Offset = pin.Vout

\* C30 as stated: every PIN ParseTransaction returns, on every parser and
\* carrier, has Id = TxID "i" Vout, Output = TxID ":" Vout, a Location that
\* begins with TxID ":" Vout ":", Offset = Vout and the ChainName of the
\* parser's GetChainName, none of them left empty.
C30_AsStated ==
    IsParse =>
      \A i \in 1..Len(ret.pins) :
        /\ ConsistentLocation(ret.pins[i])
        /\ ret.pins[i].ChainName = GetChainName(parser)

=============================================================================
